---- MODULE Spec2Model ----
(***************************************************************************)
(* Ingredient-to-food matching engine of recipe-backend: name normalizer,  *)
(* candidate indexer, signal scorers, score combiner, ranker, veto engine  *)
(* (match gotchas) and categorizer.                                        *)
(*                                                                         *)
(* Strings are sequences of one-character strings, so that normalization,  *)
(* prefix tests, substring tests and edit distance are computed the way    *)
(* the code computes them.                                                 *)
(***************************************************************************)
EXTENDS Integers, Sequences, FiniteSets, TLC

\* ------------------------------------------------------------------------
\* Strings
\* ------------------------------------------------------------------------

RECURSIVE charsFrom(_, _)
charsFrom(s, i) ==
  IF i > Len(s) THEN <<>> ELSE <<SubSeq(s, i, i)>> \o charsFrom(s, i + 1)

\* the characters of a string literal
Chars(s) == charsFrom(s, 1)

\* an optional value (T | null | undefined) is a sequence of at most one
\* element
Null == <<>>
Undefined == <<>>
Some(v) == <<v>>

UpperLetters == Chars("ABCDEFGHIJKLMNOPQRSTUVWXYZ")
LowerLetters == Chars("abcdefghijklmnopqrstuvwxyz")
Digits == Chars("0123456789")

Range(s) == {s[i] : i \in 1..Len(s)}

UpperSet == Range(UpperLetters)
LowerSet == Range(LowerLetters)
DigitSet == Range(Digits)

\* String.prototype.toLowerCase on one character
toLowerChar(c) ==
  IF c \in UpperSet
    THEN LowerLetters[CHOOSE i \in 1..26 : UpperLetters[i] = c]
    ELSE c

RECURSIVE toLowerCase(_)
toLowerCase(s) ==
  IF s = <<>> THEN <<>> ELSE <<toLowerChar(Head(s))>> \o toLowerCase(Tail(s))

\* \s of the regular expressions
IsSpace(c) == c = " "

\* \w of the regular expressions: [A-Za-z0-9_]
IsWordChar(c) == c \in UpperSet \cup LowerSet \cup DigitSet \cup {"_"}

RECURSIVE trimStart(_)
trimStart(s) ==
  IF s # <<>> /\ IsSpace(Head(s)) THEN trimStart(Tail(s)) ELSE s

RECURSIVE trimEnd(_)
trimEnd(s) ==
  IF s # <<>> /\ IsSpace(s[Len(s)])
    THEN trimEnd(SubSeq(s, 1, Len(s) - 1))
    ELSE s

\* String.prototype.trim
trim(s) == trimEnd(trimStart(s))

\* value.replace(/\s+/g, " "): every maximal run of whitespace becomes " "
RECURSIVE collapseWhitespace(_)
collapseWhitespace(s) ==
  IF s = <<>> THEN <<>>
  ELSE IF IsSpace(Head(s))
    THEN <<" ">> \o collapseWhitespace(trimStart(s))
    ELSE <<Head(s)>> \o collapseWhitespace(Tail(s))

\* String.prototype.startsWith
startsWith(s, p) == Len(p) <= Len(s) /\ SubSeq(s, 1, Len(p)) = p

\* String.prototype.includes
includes(s, p) ==
  \E i \in 1..(Len(s) + 1) :
    i + Len(p) - 1 <= Len(s) /\ SubSeq(s, i, i + Len(p) - 1) = p

endsWith(s, p) ==
  Len(p) <= Len(s) /\ SubSeq(s, Len(s) - Len(p) + 1, Len(s)) = p

\* s.split(" "): the pieces between single spaces, empty pieces included
RECURSIVE splitOnSpace(_, _)
splitOnSpace(s, current) ==
  IF s = <<>> THEN <<current>>
  ELSE IF Head(s) = " "
    THEN <<current>> \o splitOnSpace(Tail(s), <<>>)
    ELSE splitOnSpace(Tail(s), Append(current, Head(s)))

\* s.split(/\s+/): the pieces between maximal runs of whitespace
splitOnWhitespace(s) == splitOnSpace(collapseWhitespace(s), <<>>)

RECURSIVE filterNonEmpty(_)
filterNonEmpty(seq) ==
  IF seq = <<>> THEN <<>>
  ELSE IF Head(seq) = <<>>
    THEN filterNonEmpty(Tail(seq))
    ELSE <<Head(seq)>> \o filterNonEmpty(Tail(seq))

\* Array.from(new Set(tokens)): first occurrences, in order
RECURSIVE dedupe(_, _)
dedupe(seq, seen) ==
  IF seq = <<>> THEN <<>>
  ELSE IF Head(seq) \in seen
    THEN dedupe(Tail(seq), seen)
    ELSE <<Head(seq)>> \o dedupe(Tail(seq), seen \cup {Head(seq)})

\* tokens.join(" ")
RECURSIVE joinWithSpace(_)
joinWithSpace(seq) ==
  IF seq = <<>> THEN <<>>
  ELSE IF Len(seq) = 1 THEN Head(seq)
  ELSE Head(seq) \o <<" ">> \o joinWithSpace(Tail(seq))

\* ------------------------------------------------------------------------
\* Name normalizer
\* ------------------------------------------------------------------------

DESCRIPTORS ==
  << Chars("chopped"), Chars("finely chopped"), Chars("thinly sliced"),
     Chars("sliced"), Chars("diced"), Chars("minced"), Chars("peeled"),
     Chars("seeded"), Chars("softened"), Chars("melted"), Chars("divided"),
     Chars("to taste"), Chars("at room temperature"),
     Chars("freshly ground") >>

\* the rules of singularizeToken on the lower-cased token
singularizeLower(lower, n) ==
     IF n <= 3 THEN lower
     ELSE IF endsWith(lower, Chars("ies"))
       THEN SubSeq(lower, 1, n - 3) \o <<"y">>
     ELSE IF endsWith(lower, Chars("ves"))
       THEN SubSeq(lower, 1, n - 3) \o <<"f">>
     ELSE IF /\ endsWith(lower, Chars("es"))
             /\ ~endsWith(lower, Chars("ses"))
             /\ ~endsWith(lower, Chars("xes"))
       THEN SubSeq(lower, 1, n - 2)
     ELSE IF endsWith(lower, Chars("s")) /\ ~endsWith(lower, Chars("ss"))
       THEN SubSeq(lower, 1, n - 1)
     ELSE lower

singularizeLength(lower) == singularizeLower(lower, Len(lower))

singularizeToken(token) == singularizeLength(toLowerCase(token))

normalizeWhitespace(value) == trim(collapseWhitespace(value))

\* index of the first ")" at or after position i, 0 when there is none
RECURSIVE firstClose(_, _)
firstClose(s, i) ==
  IF i > Len(s) THEN 0
  ELSE IF s[i] = ")" THEN i
  ELSE firstClose(s, i + 1)

\* input.replace(/\(([^)]+)\)/g, ...): each "(...)" group with non-empty
\* content is replaced by " " and its content recorded as a descriptor
RECURSIVE removeParentheticalFrom(_, _, _)
removeParentheticalFrom(s, i, acc) ==
  IF i > Len(s) THEN acc
  ELSE
    LET j == firstClose(s, i + 1)
    IN IF s[i] = "(" /\ j >= i + 2
         THEN LET descriptor == normalizeWhitespace(SubSeq(s, i + 1, j - 1))
              IN removeParentheticalFrom(s, j + 1,
                   [working |-> acc.working \o <<" ">>,
                    descriptors |->
                      IF descriptor # <<>>
                        THEN Append(acc.descriptors, descriptor)
                        ELSE acc.descriptors])
         ELSE removeParentheticalFrom(s, i + 1,
                [acc EXCEPT !.working = Append(acc.working, s[i])])

removeParentheticalDescriptors(input) ==
  removeParentheticalFrom(input, 1, [working |-> <<>>, descriptors |-> <<>>])

\* does /\bdescriptor\b/i match at position i of s
descriptorMatchesAt(s, i, descriptor) ==
  LET n == Len(descriptor)
  IN /\ i + n - 1 <= Len(s)
     /\ toLowerCase(SubSeq(s, i, i + n - 1)) = descriptor
     /\ (i = 1 \/ ~IsWordChar(s[i - 1]))
     /\ (i + n - 1 = Len(s) \/ ~IsWordChar(s[i + n]))

\* one descriptor: every match is recorded and replaced by " "
RECURSIVE removeOneDescriptor(_, _, _, _)
removeOneDescriptor(s, i, descriptor, acc) ==
  IF i > Len(s) THEN acc
  ELSE IF descriptorMatchesAt(s, i, descriptor)
    THEN removeOneDescriptor(s, i + Len(descriptor), descriptor,
           [working |-> acc.working \o <<" ">>,
            descriptors |-> Append(acc.descriptors, descriptor)])
    ELSE removeOneDescriptor(s, i + 1, descriptor,
           [acc EXCEPT !.working = Append(acc.working, s[i])])

RECURSIVE removeDescriptorsFrom(_, _)
removeDescriptorsFrom(acc, k) ==
  IF k > Len(DESCRIPTORS) THEN acc
  ELSE removeDescriptorsFrom(
         removeOneDescriptor(acc.working, 1, DESCRIPTORS[k],
           [working |-> <<>>, descriptors |-> acc.descriptors]),
         k + 1)

removeDescriptorPhrases(acc) == removeDescriptorsFrom(acc, 1)

\* value.replace(/[^a-z0-9\s-]/gi, " ")
RECURSIVE replaceNonAlphanumeric(_)
replaceNonAlphanumeric(value) ==
  IF value = <<>> THEN <<>>
  ELSE LET c == Head(value)
       IN <<IF c \in UpperSet \cup LowerSet \cup DigitSet \cup {" ", "-"}
              THEN c ELSE " ">>
          \o replaceNonAlphanumeric(Tail(value))

sanitizeWorkingValue(value) ==
  normalizeWhitespace(replaceNonAlphanumeric(value))

RECURSIVE mapSingularize(_)
mapSingularize(seq) ==
  IF seq = <<>> THEN <<>>
  ELSE <<singularizeToken(Head(seq))>> \o mapSingularize(Tail(seq))

buildTokens(value) ==
  IF value = <<>> THEN <<>>
  ELSE dedupe(filterNonEmpty(mapSingularize(splitOnSpace(value, <<>>))), {})

\* the object normalizeIngredientName returns, from its locals
normalizedIngredient(input, descriptors, sanitized, tokens, joined) ==
  [baseName |->
     IF joined # <<>> THEN joined
     ELSE normalizeWhitespace(IF sanitized # <<>> THEN sanitized ELSE input),
   descriptors |-> descriptors,
   tokens |-> tokens]

\* const baseName = tokens.join(" ") || ...
normalizeTokens(input, descriptors, sanitized, tokens) ==
  normalizedIngredient(input, descriptors, sanitized, tokens,
                       joinWithSpace(tokens))

\* const tokens = buildTokens(sanitized)
normalizeSanitized(input, descriptors, sanitized) ==
  normalizeTokens(input, descriptors, sanitized, buildTokens(sanitized))

\* const sanitized = sanitizeWorkingValue(removed.working)
normalizeRemoved(input, removed) ==
  normalizeSanitized(input, removed.descriptors,
                     sanitizeWorkingValue(removed.working))

normalizeIngredientName(input) ==
  normalizeRemoved(input,
    removeDescriptorPhrases(removeParentheticalDescriptors(input)))

\* ------------------------------------------------------------------------
\* Signal scorers and score combiner
\* ------------------------------------------------------------------------

EXACT_NAME_SCORE == 100
ALIAS_EXACT_SCORE == 95
PREFIX_SCORE == 85
TOKEN_SCORE_HIGH == 80
TOKEN_SCORE_MEDIUM == 70
TOKEN_SCORE_LOW == 60
FUZZY_SCORE_WEIGHT == 70

\* Math.round(num / den) for num >= 0, den > 0
roundDiv(num, den) == (2 * num + den) \div (2 * den)

Min(a, b) == IF a <= b THEN a ELSE b
Max(a, b) == IF a >= b THEN a ELSE b

normalizeForComparison(value) ==
  toLowerCase(normalizeIngredientName(value).baseName)

\* one row of the edit-distance table, built left to right from the
\* previous row
RECURSIVE levenshteinRow(_, _, _, _, _)
levenshteinRow(a, b, i, previousRow, currentRow) ==
  LET j == Len(currentRow)
  IN IF j > Len(b) THEN currentRow
     ELSE
       LET insertion == currentRow[j] + 1
           deletion == previousRow[j + 1] + 1
           substitution == previousRow[j] + (IF a[i] = b[j] THEN 0 ELSE 1)
       IN levenshteinRow(a, b, i, previousRow,
            Append(currentRow, Min(insertion, Min(deletion, substitution))))

\* previousRow[j] = j for j in 0..n
RECURSIVE firstRow(_)
firstRow(n) == IF n = 0 THEN <<0>> ELSE Append(firstRow(n - 1), n)

RECURSIVE levenshteinFrom(_, _, _, _)
levenshteinFrom(a, b, i, previousRow) ==
  IF i <= Len(a) /\ Len(previousRow) = Len(b) + 1
    THEN levenshteinFrom(a, b, i + 1,
           levenshteinRow(a, b, i, previousRow, <<i>>))
    ELSE previousRow[Len(b) + 1]

\* rows are indexed from 1 here: row[j + 1] is the code's row[j]
levenshteinDistance(a, b) ==
  levenshteinFrom(a, b, 1, firstRow(Len(b)))

\* a similarity is the fraction <<numerator, denominator>>; <<>> is undefined
computeLevenshteinSimilarity(a, b) ==
  IF a = <<>> \/ b = <<>> THEN <<>>
  ELSE IF a = b THEN <<1, 1>>
  ELSE LET distance == levenshteinDistance(a, b)
           maxLength == Max(Len(a), Len(b))
       IN <<maxLength - distance, maxLength>>

NoMeta == [perfectMatch |-> FALSE, coverage |-> <<>>, similarity |-> <<>>]

Reason(type, score, meta) == [type |-> type, score |-> score, meta |-> meta]

\* ingredientTokens.filter((token) => tokenSet.has(token)).length
RECURSIVE countMatched(_, _)
countMatched(tokens, tokenSet) ==
  IF tokens = <<>> THEN 0
  ELSE (IF Head(tokens) \in tokenSet THEN 1 ELSE 0)
       + countMatched(Tail(tokens), tokenSet)

\* <<>> is undefined; coverage is the larger of matched / candidate size and
\* matched / ingredient length, kept as a fraction
computeTokenOverlapScore(ingredientTokens, candidateTokens) ==
  IF ingredientTokens = <<>> \/ candidateTokens = {} THEN <<>>
  ELSE
    LET matched == countMatched(ingredientTokens, candidateTokens)
        den == Min(Cardinality(candidateTokens), Len(ingredientTokens))
        coverage == <<matched, den>>
        meta == [NoMeta EXCEPT !.coverage = coverage]
    IN IF matched = 0 THEN <<>>
       ELSE IF 10 * matched >= 8 * den
         THEN <<Reason("token-overlap", TOKEN_SCORE_HIGH, meta)>>
       ELSE IF 10 * matched >= 6 * den
         THEN <<Reason("token-overlap", TOKEN_SCORE_MEDIUM, meta)>>
       ELSE IF 10 * matched >= 4 * den
         THEN <<Reason("token-overlap", TOKEN_SCORE_LOW, meta)>>
       ELSE <<>>

RECURSIVE aliasOverlapFrom(_, _, _)
aliasOverlapFrom(ingredientTokens, aliasTokenSets, k) ==
  IF k > Len(aliasTokenSets) THEN <<>>
  ELSE
    LET tokenSet == aliasTokenSets[k]
        matched == countMatched(ingredientTokens, tokenSet)
    IN IF tokenSet # {} /\ 10 * matched >= 8 * Cardinality(tokenSet)
         THEN <<Reason("alias-token-overlap", TOKEN_SCORE_MEDIUM,
                  [NoMeta EXCEPT
                     !.coverage = <<matched, Cardinality(tokenSet)>>])>>
         ELSE aliasOverlapFrom(ingredientTokens, aliasTokenSets, k + 1)

computeAliasTokenOverlap(ingredientTokens, aliasTokenSets) ==
  IF ingredientTokens = <<>> \/ aliasTokenSets = <<>> THEN <<>>
  ELSE aliasOverlapFrom(ingredientTokens, aliasTokenSets, 1)

RECURSIVE sumScores(_)
sumScores(reasons) ==
  IF reasons = <<>> THEN 0
  ELSE Head(reasons).score + sumScores(Tail(reasons))

maxScore(reasons) ==
  CHOOSE m \in {reasons[i].score : i \in 1..Len(reasons)} :
    \A i \in 1..Len(reasons) : reasons[i].score <= m

\* combineScores without the cap
combineScoresUncapped(reasons) ==
  IF reasons = <<>> THEN 0
  ELSE LET top == maxScore(reasons)
           rest == sumScores(reasons) - top
       IN top + roundDiv(rest, 5)

\* top score plus 0.2 of every other score, rounded, capped at 100
combineScores(reasons) ==
  IF reasons = <<>> THEN 0
  ELSE LET top == maxScore(reasons)
           rest == sumScores(reasons) - top
       IN Min(100, top + roundDiv(rest, 5))

\* ------------------------------------------------------------------------
\* Embedding similarity
\* ------------------------------------------------------------------------

RECURSIVE dotUpTo(_, _, _)
dotUpTo(a, b, n) ==
  IF n = 0 THEN 0 ELSE a[n] * b[n] + dotUpTo(a, b, n - 1)

\* cosine similarity kept exact: dotProduct / sqrt(magnitudeA * magnitudeB),
\* as <<dotProduct, magnitudeA, magnitudeB>>; <<0, 1, 1>> is the code's 0
cosineSimilarity(a, b) ==
  LET length == Min(Len(a), Len(b))
      dotProduct == dotUpTo(a, b, length)
      magnitudeA == dotUpTo(a, a, length)
      magnitudeB == dotUpTo(b, b, length)
  IN IF length = 0 \/ magnitudeA * magnitudeB = 0 THEN <<0, 1, 1>>
     ELSE <<dotProduct, magnitudeA, magnitudeB>>

\* similarity >= 0.6
similarityAtLeastMin(sim) ==
  sim[1] > 0 /\ 100 * sim[1] * sim[1] >= 36 * sim[2] * sim[3]

\* Math.round(similarity * 100) for similarity > 0
roundSimilarityPercent(sim) ==
  CHOOSE k \in 0..100 :
    /\ (2 * k - 1) * (2 * k - 1) * sim[2] * sim[3]
         <= 40000 * sim[1] * sim[1]
    /\ 40000 * sim[1] * sim[1]
         < (2 * k + 1) * (2 * k + 1) * sim[2] * sim[3]

computeEmbeddingReason(options) ==
  IF options.ingredientEmbedding = Null \/ options.candidateEmbedding = Null
    THEN <<>>
  ELSE
    LET similarity ==
          cosineSimilarity(options.ingredientEmbedding[1],
                           options.candidateEmbedding[1])
    IN IF ~similarityAtLeastMin(similarity) THEN <<>>
       ELSE <<Reason("embedding-similarity",
                roundSimilarityPercent(similarity),
                [NoMeta EXCEPT !.similarity = similarity])>>

\* ------------------------------------------------------------------------
\* scoreCandidate
\* ------------------------------------------------------------------------

checkPerfectTokenMatch(ingredientTokens, candidateTokenSet) ==
  LET ingredientTokenSet == Range(ingredientTokens)
      allIngredientTokensMatch == ingredientTokenSet \subseteq candidateTokenSet
      allCandidateTokensMatch ==
        candidateTokenSet # {} /\ candidateTokenSet \subseteq ingredientTokenSet
  IN allIngredientTokensMatch /\ allCandidateTokensMatch

\* shouldApplyPrefixMatch without the test of the coverage
shouldApplyPrefixAnyCoverage(tokenOverlap, ingredientNameNormalized, candidateNormalizedName) ==
  IF tokenOverlap = <<>> THEN FALSE
  ELSE \/ startsWith(candidateNormalizedName, ingredientNameNormalized)
       \/ startsWith(ingredientNameNormalized, candidateNormalizedName)

shouldApplyPrefixMatch(tokenOverlap, ingredientNameNormalized, candidateNormalizedName) ==
  IF tokenOverlap = <<>> THEN FALSE
  ELSE LET coverage == tokenOverlap[1].meta.coverage
       IN IF 10 * coverage[1] < 6 * coverage[2] THEN FALSE
          ELSE \/ startsWith(candidateNormalizedName, ingredientNameNormalized)
               \/ startsWith(ingredientNameNormalized, candidateNormalizedName)

\* handleTokenOverlap without the boost for a perfect token match
handleTokenOverlapNoBoost(reasons, tokenOverlap, perfectTokenMatch) ==
  IF tokenOverlap = <<>> THEN reasons ELSE reasons \o tokenOverlap

handleTokenOverlap(reasons, tokenOverlap, perfectTokenMatch) ==
  IF tokenOverlap = <<>> THEN reasons
  ELSE
    LET pushed == reasons \o tokenOverlap
    IN IF perfectTokenMatch /\ tokenOverlap[1].score < EXACT_NAME_SCORE
         THEN Append(pushed,
                Reason("token-overlap", EXACT_NAME_SCORE,
                  [NoMeta EXCEPT !.perfectMatch = TRUE,
                                 !.coverage = tokenOverlap[1].meta.coverage]))
         ELSE pushed

\* ingredient.normalizedTokens ?? normalizeIngredientName(ingredient.name).tokens
ingredientTokensOf(ingredient) ==
  IF ingredient.normalizedTokens # Undefined
    THEN ingredient.normalizedTokens[1]
    ELSE normalizeIngredientName(ingredient.name).tokens

\* the exact-name and alias-exact checks
exactReasons(ingredientNameNormalized, candidate) ==
  (IF candidate.normalizedName = ingredientNameNormalized
     THEN <<Reason("exact-name", EXACT_NAME_SCORE, NoMeta)>>
     ELSE <<>>)
  \o (IF ingredientNameNormalized \in candidate.aliasSet
        THEN <<Reason("alias-exact", ALIAS_EXACT_SCORE, NoMeta)>>
        ELSE <<>>)

\* the prefix-match check followed by handleTokenOverlap
tokenReasons(reasons, tokenOverlap, perfectTokenMatch, ingredientNameNormalized, candidate) ==
  handleTokenOverlap(
    IF shouldApplyPrefixMatch(tokenOverlap, ingredientNameNormalized,
                              candidate.normalizedName)
      THEN Append(reasons, Reason("prefix-match", PREFIX_SCORE, NoMeta))
      ELSE reasons,
    tokenOverlap, perfectTokenMatch)

\* fuzzySimilarity !== undefined && fuzzySimilarity >= 0.6
fuzzyReasons(reasons, fuzzySimilarity) ==
  IF fuzzySimilarity # <<>>
     /\ 10 * fuzzySimilarity[1] >= 6 * fuzzySimilarity[2]
    THEN Append(reasons,
           Reason("fuzzy-similarity",
             roundDiv(FUZZY_SCORE_WEIGHT * fuzzySimilarity[1],
                      fuzzySimilarity[2]),
             [NoMeta EXCEPT !.similarity = fuzzySimilarity]))
    ELSE reasons

\* the reasons array in the order scoreCandidate fills it
reasonsInOrder(ingredientNameNormalized, ingredientTokens, candidate, options) ==
  fuzzyReasons(
    tokenReasons(
      exactReasons(ingredientNameNormalized, candidate),
      computeTokenOverlapScore(ingredientTokens, candidate.tokenSet),
      checkPerfectTokenMatch(ingredientTokens, candidate.tokenSet),
      ingredientNameNormalized, candidate)
    \o computeAliasTokenOverlap(ingredientTokens, candidate.aliasTokenSets),
    computeLevenshteinSimilarity(ingredientNameNormalized,
                                 candidate.normalizedName))
  \o computeEmbeddingReason(options)

\* scoreCandidate without the return on an empty normalized name
reasonsForAnyName(ingredientNameNormalized, ingredient, candidate, options) ==
  reasonsInOrder(ingredientNameNormalized, ingredientTokensOf(ingredient),
                 candidate, options)

\* if (!ingredientNameNormalized) return null
reasonsForName(ingredientNameNormalized, ingredient, candidate, options) ==
  IF ingredientNameNormalized = <<>> THEN <<>>
  ELSE reasonsInOrder(ingredientNameNormalized, ingredientTokensOf(ingredient),
                      candidate, options)

\* the reasons array as it stands when scoreCandidate decides; <<>> also
\* when the ingredient name normalizes to nothing
candidateReasons(ingredient, candidate, options) ==
  reasonsForName(normalizeForComparison(ingredient.name), ingredient,
                 candidate, options)

\* if (confidence <= 0) return null; return { food, confidence, reasons }
candidateWith(candidate, reasons, confidence) ==
  IF reasons = <<>> THEN Null
  ELSE IF confidence <= 0 THEN Null
  ELSE Some([food |-> [id |-> candidate.id, name |-> candidate.name,
                       aliases |-> candidate.aliases],
             confidence |-> confidence,
             reasons |-> reasons])

\* const confidence = combineScores(reasons)
candidateFromReasons(candidate, reasons) ==
  candidateWith(candidate, reasons, combineScores(reasons))

\* Null, or the FoodMatchCandidate
scoreCandidate(ingredient, candidate, options) ==
  candidateFromReasons(candidate,
                       candidateReasons(ingredient, candidate, options))

\* ------------------------------------------------------------------------
\* Candidate indexer and ranker
\* ------------------------------------------------------------------------

RECURSIVE aliasBaseNamesOf(_)
\* the alias set filled with the aliases as written, not normalized
aliasBaseNamesAsWritten(aliases) ==
  {aliases[k] : k \in 1..Len(aliases)}

\* if (normalizedAlias.baseName) aliasSet.add(normalizedAlias.baseName)
aliasBaseName(normalizedAlias) ==
  IF normalizedAlias.baseName # <<>> THEN {normalizedAlias.baseName} ELSE {}

aliasBaseNamesOf(aliases) ==
  IF aliases = <<>> THEN {}
  ELSE aliasBaseName(normalizeIngredientName(Head(aliases)))
       \cup aliasBaseNamesOf(Tail(aliases))

RECURSIVE aliasTokenSetsOf(_)
\* if (normalizedAlias.tokens.length > 0) aliasTokenSets.push(new Set(...))
aliasTokenSet(normalizedAlias) ==
  IF normalizedAlias.tokens # <<>>
    THEN <<Range(normalizedAlias.tokens)>> ELSE <<>>

aliasTokenSetsOf(aliases) ==
  IF aliases = <<>> THEN <<>>
  ELSE aliasTokenSet(normalizeIngredientName(Head(aliases)))
       \o aliasTokenSetsOf(Tail(aliases))

\* the IndexedFood, from the base name and the tokens of the food name
indexedFood(food, baseName, tokens) ==
  [id |-> food.id, name |-> food.name, aliases |-> food.aliases,
   normalizedName |-> baseName,
   tokenSet |->
     IF tokens # <<>>
       THEN Range(tokens)
       ELSE Range(filterNonEmpty(splitOnSpace(baseName, <<>>))),
   aliasSet |-> aliasBaseNamesOf(food.aliases),
   aliasTokenSets |-> aliasTokenSetsOf(food.aliases)]

\* const baseName = normalizedNameData.baseName || food.name.toLowerCase().trim()
indexNormalized(food, normalizedNameData) ==
  indexedFood(food,
    IF normalizedNameData.baseName # <<>>
      THEN normalizedNameData.baseName
      ELSE trim(toLowerCase(food.name)),
    normalizedNameData.tokens)

indexFood(food) == indexNormalized(food, normalizeIngredientName(food.name))

\* Array.prototype.sort((a, b) => b.confidence - a.confidence): stable
RECURSIVE insertByConfidence(_, _)
\* an insertion that puts a candidate ahead of its equals
insertByConfidenceUnstable(sorted, c) ==
  IF sorted = <<>> THEN <<c>>
  ELSE IF sorted[Len(sorted)].confidence > c.confidence
    THEN Append(sorted, c)
    ELSE Append(insertByConfidence(SubSeq(sorted, 1, Len(sorted) - 1), c),
                sorted[Len(sorted)])

insertByConfidence(sorted, c) ==
  IF sorted = <<>> THEN <<c>>
  ELSE IF sorted[Len(sorted)].confidence >= c.confidence
    THEN Append(sorted, c)
    ELSE Append(insertByConfidence(SubSeq(sorted, 1, Len(sorted) - 1), c),
                sorted[Len(sorted)])

RECURSIVE sortByConfidence(_, _)
sortByConfidence(scored, sorted) ==
  IF scored = <<>> THEN sorted
  ELSE sortByConfidence(Tail(scored), insertByConfidence(sorted, Head(scored)))

\* ------------------------------------------------------------------------
\* Thresholds
\* ------------------------------------------------------------------------

DEFAULT_HARD_MATCH_THRESHOLD == 90
DEFAULT_SOFT_MATCH_THRESHOLD == 70

digitValue(c) == (CHOOSE i \in 1..10 : Digits[i] = c) - 1

RECURSIVE digitsPrefix(_)
digitsPrefix(s) ==
  IF s # <<>> /\ Head(s) \in DigitSet
    THEN <<Head(s)>> \o digitsPrefix(Tail(s))
    ELSE <<>>

RECURSIVE decimalValue(_, _)
decimalValue(digits, acc) ==
  IF digits = <<>> THEN acc
  ELSE decimalValue(Tail(digits), 10 * acc + digitValue(Head(digits)))

\* Number.parseFloat on a decimal literal (optional sign, digits, optional
\* fraction); Null is NaN.  The value is kept as sign, integer part and the
\* first fraction digit, which is what Math.round needs.
parseFloat(value) ==
  LET s == trimStart(value)
      signed == s # <<>> /\ Head(s) \in {"+", "-"}
      body == IF signed THEN Tail(s) ELSE s
      intDigits == digitsPrefix(body)
      afterInt == SubSeq(body, Len(intDigits) + 1, Len(body))
      fracDigits ==
        IF afterInt # <<>> /\ Head(afterInt) = "."
          THEN digitsPrefix(Tail(afterInt))
          ELSE <<>>
  IN IF intDigits = <<>> /\ fracDigits = <<>> THEN Null
     ELSE Some([negative |-> signed /\ Head(s) = "-",
                int |-> decimalValue(intDigits, 0),
                tenths |-> IF fracDigits = <<>> THEN 0
                           ELSE digitValue(Head(fracDigits))])

\* parseThreshold without the clamp to 0..100
parseThresholdUnclamped(value, fallback) ==
  IF value = Undefined \/ value[1] = <<>> THEN fallback
  ELSE IF parseFloat(value[1]) = Null THEN fallback
  ELSE IF parseFloat(value[1])[1].negative THEN 0
  ELSE parseFloat(value[1])[1].int
       + (IF parseFloat(value[1])[1].tenths >= 5 THEN 1 ELSE 0)

\* Math.max(0, Math.min(100, Math.round(parsed)))
parseThreshold(value, fallback) ==
  IF value = Undefined \/ value[1] = <<>> THEN fallback
  ELSE LET parsed == parseFloat(value[1])
       IN IF parsed = Null THEN fallback
          ELSE IF parsed[1].negative THEN 0
          ELSE Min(100, parsed[1].int
                        + (IF parsed[1].tenths >= 5 THEN 1 ELSE 0))

HARD_MATCH_THRESHOLD(env) ==
  parseThreshold(env.MATCH_HARD_THRESHOLD, DEFAULT_HARD_MATCH_THRESHOLD)

SOFT_MATCH_THRESHOLD(env) ==
  parseThreshold(env.MATCH_SOFT_THRESHOLD, DEFAULT_SOFT_MATCH_THRESHOLD)

\* ------------------------------------------------------------------------
\* Veto engine (match gotchas)
\* ------------------------------------------------------------------------

Pattern(ingredient, excludes) == [ingredient |-> ingredient, excludes |-> excludes]

PROBLEMATIC_SINGLE_WORD_PATTERNS ==
  << Pattern(Chars("salt"), <<Chars("butter"), Chars("pepper")>>),
     Pattern(Chars("pepper"),
       <<Chars("bell"), Chars("red"), Chars("green"), Chars("yellow"),
         Chars("orange"), Chars("black"), Chars("white")>>),
     Pattern(Chars("stock"),
       <<Chars("ground"), Chars("beef"), Chars("chicken"), Chars("pork"),
         Chars("vegetable")>>),
     Pattern(Chars("leaf"),
       <<Chars("lettuce"), Chars("cabbage"), Chars("spinach")>>),
     Pattern(Chars("ground"),
       <<Chars("beef"), Chars("turkey"), Chars("chicken"), Chars("pork")>>),
     Pattern(Chars("butter"),
       <<Chars("peanut"), Chars("almond"), Chars("cashew")>>) >>

SEMANTIC_MISMATCHES ==
  << Pattern(<<Chars("beef"), Chars("stock")>>,
       <<Chars("ground"), Chars("steak"), Chars("roast")>>),
     Pattern(<<Chars("bay"), Chars("leaf")>>, <<Chars("lettuce")>>),
     Pattern(<<Chars("thyme"), Chars("leaf")>>, <<Chars("lettuce")>>),
     Pattern(<<Chars("chicken"), Chars("stock")>>,
       <<Chars("breast"), Chars("thigh"), Chars("wing")>>) >>

\* words.some((w) => name.includes(w))
someIncluded(words, name) == \E k \in 1..Len(words) : includes(name, words[k])

\* words.every((w) => name.includes(w))
everyIncluded(words, name) == \A k \in 1..Len(words) : includes(name, words[k])

\* name.split(/\s+/).filter(Boolean)
wordsOf(name) == filterNonEmpty(splitOnWhitespace(name))

NotProblematic == [isProblematic |-> FALSE, pattern |-> <<>>]

RECURSIVE singleWordGotchaFrom(_, _, _)
singleWordGotchaFrom(singleWord, candidateName, k) ==
  IF k > Len(PROBLEMATIC_SINGLE_WORD_PATTERNS) THEN NotProblematic
  ELSE LET pattern == PROBLEMATIC_SINGLE_WORD_PATTERNS[k]
       IN IF /\ singleWord = pattern.ingredient
             /\ someIncluded(pattern.excludes, candidateName)
            THEN [isProblematic |-> TRUE,
                  pattern |-> pattern.ingredient \o Chars(" -> ")
                              \o candidateName]
            ELSE singleWordGotchaFrom(singleWord, candidateName, k + 1)

RECURSIVE semanticGotchaFrom(_, _, _)
semanticGotchaFrom(ingredientName, candidateName, k) ==
  IF k > Len(SEMANTIC_MISMATCHES) THEN NotProblematic
  ELSE LET mismatch == SEMANTIC_MISMATCHES[k]
       IN IF /\ everyIncluded(mismatch.ingredient, ingredientName)
             /\ someIncluded(mismatch.excludes, candidateName)
            THEN [isProblematic |-> TRUE,
                  pattern |-> ingredientName \o Chars(" -> ") \o candidateName]
            ELSE semanticGotchaFrom(ingredientName, candidateName, k + 1)

\* checkProblematicMatch without the single-word patterns
checkSemanticMismatchesOnly(ingredient, candidate) ==
  semanticGotchaFrom(trim(toLowerCase(ingredient.name)),
                     trim(toLowerCase(candidate.food.name)), 1)

checkProblematicMatch(ingredient, candidate) ==
  LET ingredientName == trim(toLowerCase(ingredient.name))
      candidateName == trim(toLowerCase(candidate.food.name))
      ingredientWords == wordsOf(ingredientName)
      single ==
        IF Len(ingredientWords) = 1
          THEN singleWordGotchaFrom(ingredientWords[1], candidateName, 1)
          ELSE NotProblematic
  IN IF single.isProblematic THEN single
     ELSE semanticGotchaFrom(ingredientName, candidateName, 1)

\* ------------------------------------------------------------------------
\* Second validity check
\* ------------------------------------------------------------------------

problematicPatterns ==
  << Pattern(Chars("pepper"),
       <<Chars("bell"), Chars("red"), Chars("green"), Chars("yellow"),
         Chars("orange")>>),
     Pattern(Chars("salt"), <<Chars("butter"), Chars("pepper")>>),
     Pattern(Chars("stock"),
       <<Chars("ground"), Chars("beef"), Chars("chicken"), Chars("pork")>>),
     Pattern(Chars("leaf"), <<Chars("lettuce"), Chars("cabbage")>>) >>

semanticMismatches ==
  << Pattern(<<Chars("beef"), Chars("stock")>>,
       <<Chars("ground"), Chars("steak"), Chars("roast")>>),
     Pattern(<<Chars("bay"), Chars("leaf")>>, <<Chars("lettuce")>>),
     Pattern(<<Chars("thyme"), Chars("leaf")>>, <<Chars("lettuce")>>) >>

hasProblematicSingleWordMatch(singleWord, candidateName) ==
  \E k \in 1..Len(problematicPatterns) :
    /\ singleWord = problematicPatterns[k].ingredient
    /\ someIncluded(problematicPatterns[k].excludes, candidateName)

hasSemanticMismatch(ingredientName, candidateName) ==
  \E k \in 1..Len(semanticMismatches) :
    /\ everyIncluded(semanticMismatches[k].ingredient, ingredientName)
    /\ someIncluded(semanticMismatches[k].excludes, candidateName)

isValidMatch(ingredient, candidate) ==
  LET ingredientName == trim(toLowerCase(ingredient.name))
      candidateName == trim(toLowerCase(candidate.food.name))
      ingredientWords == wordsOf(ingredientName)
      candidateWords == wordsOf(candidateName)
      singleWordRejected ==
        /\ Len(ingredientWords) = 1
        /\ Len(candidateWords) > 1
        /\ candidate.confidence < 90
        /\ includes(candidateName, ingredientWords[1])
        /\ hasProblematicSingleWordMatch(ingredientWords[1], candidateName)
      semanticRejected ==
        /\ Len(ingredientWords) > 1
        /\ Len(candidateWords) > Len(ingredientWords)
        /\ candidate.confidence < 85
        /\ \A k \in 1..Len(ingredientWords) :
             includes(candidateName, ingredientWords[k])
        /\ hasSemanticMismatch(ingredientName, candidateName)
  IN ~singleWordRejected /\ ~semanticRejected

\* ------------------------------------------------------------------------
\* Categorizer
\* ------------------------------------------------------------------------

PERFECT_MATCH_MIN_CONFIDENCE == 85

hasPerfectTokenMatch(candidate) ==
  \E k \in 1..Len(candidate.reasons) :
    /\ candidate.reasons[k].type = "token-overlap"
    /\ candidate.reasons[k].meta.perfectMatch = TRUE

\* checkGotchaAndTryNext without the veto check
checkGotchaSkipped(ranked, ingredient) ==
  IF ranked = <<>> THEN Null ELSE Some(ranked[1])

\* checkGotchaAndTryNext falling back through the whole list
RECURSIVE checkGotchaAndTryAll(_, _)
checkGotchaAndTryAll(ranked, ingredient) ==
  IF ranked = <<>> THEN Null
  ELSE IF checkProblematicMatch(ingredient, ranked[1]).isProblematic
    THEN checkGotchaAndTryAll(Tail(ranked), ingredient)
    ELSE Some(ranked[1])

\* Null, or the candidate that survives the veto check
checkGotchaAndTryNext(ranked, ingredient) ==
  IF ranked = <<>> THEN Null
  ELSE IF checkProblematicMatch(ingredient, ranked[1]).isProblematic
    THEN IF /\ Len(ranked) >= 2
            /\ ~checkProblematicMatch(ingredient, ranked[2]).isProblematic
           THEN Some(ranked[2])
           ELSE Null
    ELSE Some(ranked[1])

Categorized(autoMatch, probableMatch, best) == [autoMatch |-> autoMatch, probableMatch |-> probableMatch, best |-> best]

RECURSIVE categorizeMatch(_, _, _, _)
\* categorizeMatch with the SOFT test ahead of the HARD test
categorizeMatchSoftFirst(ranked, ingredient, hard, soft) ==
  IF ranked = <<>> THEN Categorized(Null, Null, Null)
  ELSE
    LET best == Some(ranked[1])
        validCandidate == checkGotchaAndTryNext(ranked, ingredient)
    IN IF validCandidate = Null THEN Categorized(Null, Null, best)
       ELSE IF ~isValidMatch(ingredient, validCandidate[1])
         THEN IF Len(ranked) >= 2 /\ isValidMatch(ingredient, ranked[2])
                THEN categorizeMatch(Tail(ranked), ingredient, hard, soft)
                ELSE Categorized(Null, Null, best)
       ELSE IF validCandidate[1].confidence >= soft
         THEN Categorized(Null, validCandidate, validCandidate)
       ELSE IF \/ validCandidate[1].confidence >= hard
               \/ /\ validCandidate[1].confidence >= PERFECT_MATCH_MIN_CONFIDENCE
                  /\ hasPerfectTokenMatch(validCandidate[1])
         THEN Categorized(validCandidate, Null, validCandidate)
       ELSE Categorized(Null, Null, validCandidate)

categorizeMatch(ranked, ingredient, hard, soft) ==
  IF ranked = <<>> THEN Categorized(Null, Null, Null)
  ELSE
    LET best == Some(ranked[1])
        validCandidate == checkGotchaAndTryNext(ranked, ingredient)
    IN IF validCandidate = Null THEN Categorized(Null, Null, best)
       ELSE IF ~isValidMatch(ingredient, validCandidate[1])
         THEN IF Len(ranked) >= 2 /\ isValidMatch(ingredient, ranked[2])
                THEN categorizeMatch(Tail(ranked), ingredient, hard, soft)
                ELSE Categorized(Null, Null, best)
       ELSE IF \/ validCandidate[1].confidence >= hard
               \/ /\ validCandidate[1].confidence >= PERFECT_MATCH_MIN_CONFIDENCE
                  /\ hasPerfectTokenMatch(validCandidate[1])
         THEN Categorized(validCandidate, Null, validCandidate)
       ELSE IF validCandidate[1].confidence >= soft
         THEN Categorized(Null, validCandidate, validCandidate)
       ELSE Categorized(Null, Null, validCandidate)

\* ------------------------------------------------------------------------
\* Inputs
\* ------------------------------------------------------------------------

MaxCatalog == 3

Food(id, name, aliases) == [id |-> id, name |-> Chars(name), aliases |-> aliases]

FoodPool ==
  { Food("f1", "Salted Butter", <<>>),
    Food("f2", "Table Salt", <<>>),
    Food("f3", "Bell Peppers", <<>>),
    Food("f4", "Black Pepper", <<>>),
    Food("f5", "Cayenne Pepper", <<>>),
    Food("f6", "Chicken Breast, Cooked", <<Chars("chicken breast")>>),
    Food("f7", "Chicken Breast", <<>>),
    Food("f8", "Sodium Chloride", <<Chars("Salt")>>) }

IngredientNames ==
  { Chars("salt"), Chars("pepper"), Chars("chicken breast"),
    Chars("Chicken Breasts"), Chars("breast chicken"), Chars(" "),
    Chars("") }

\* normalizedTokens as a caller supplies them: name.toLowerCase().split(" ")
splitTokens(name) == filterNonEmpty(splitOnSpace(toLowerCase(name), <<>>))

Ingredients ==
  { [name |-> n, normalizedTokens |-> Undefined] : n \in IngredientNames }
  \cup { [name |-> n, normalizedTokens |-> Some(splitTokens(n))] :
           n \in {Chars("salt"), Chars("Chicken Breasts")} }

RECURSIVE Catalogs(_)
Catalogs(n) ==
  IF n = 0 THEN {<<>>}
  ELSE LET shorter == Catalogs(n - 1)
       IN shorter \cup
          { Append(c, f) : c \in {d \in shorter : Len(d) = n - 1},
                           f \in FoodPool }

HasDistinctIds(c) ==
  \A i, j \in 1..Len(c) : c[i].id = c[j].id => i = j

\* an embedding gateway answers with a vector or with nothing
NoGateway == [name |-> "none"]

SaltGateway == [name |-> "salt"]

Gateways == {NoGateway, SaltGateway}

gatewayEmbedIngredient(g, i) ==
  IF g = NoGateway THEN Null ELSE Some(<<1, 0>>)

gatewayEmbedFood(g, f) ==
  IF g = NoGateway THEN Null
  ELSE IF f.id = "f1" THEN Some(<<1, 0>>)
  ELSE IF f.id = "f2" THEN Some(<<3, 4>>)
  ELSE IF f.id = "f3" THEN Some(<<0, 1>>)
  ELSE Null

\* the options of one scoreCandidate call of the ranking loop
embeddingOptions(g, i, f) == [ingredientEmbedding |-> gatewayEmbedIngredient(g, i), candidateEmbedding |-> gatewayEmbedFood(g, f)]

\* the result of the loop body of rankFoodCandidates for every ingredient,
\* catalog entry and gateway of the input sets, computed once
ScoredPair ==
  [i \in Ingredients, f \in FoodPool, g \in Gateways |->
     scoreCandidate(i, indexFood(f), embeddingOptions(g, i, f))]

RECURSIVE flatten(_)
flatten(options) ==
  IF options = <<>> THEN <<>> ELSE Head(options) \o flatten(Tail(options))

rankFoodCandidates(i, foods, g) ==
  IF foods = <<>> THEN <<>>
  ELSE sortByConfidence(
         flatten([k \in 1..Len(foods) |-> ScoredPair[i, foods[k], g]]), <<>>)

\* ranked[0] ?? null
matchIngredientToFood(i, foods, g) ==
  IF rankFoodCandidates(i, foods, g) = <<>> THEN Null
  ELSE Some(rankFoodCandidates(i, foods, g)[1])

Env(hard, soft) == [MATCH_HARD_THRESHOLD |-> hard, MATCH_SOFT_THRESHOLD |-> soft]

Environments ==
  { Env(Undefined, Undefined),
    Env(Some(Chars("95.5")), Some(Chars("60"))),
    Env(Some(Chars("abc")), Some(Chars(""))) }

\* ------------------------------------------------------------------------
\* State
\* ------------------------------------------------------------------------

\* the matching of one ingredient
VARIABLES processEnv, embeddingGateway, parsedIngredient, foodLookup, pc, rankedCandidates, categorized

\* a phrase and the results of normalizing it, the result of one veto check
VARIABLES phrase, normalized, gotchaCheck

matchVars == <<processEnv, embeddingGateway, parsedIngredient, foodLookup, pc, rankedCandidates, categorized>>

normalizerVars == <<phrase, normalized>>

\* the embedding cache of one request: its two maps, the lookups made of it,
\* the gateway calls it made, the provider failures the gateway logged and
\* whether a lookup rejected
VARIABLES foodCache, ingredientCache, lookups, gatewayCalls, providerErrors, requestRejected

cacheVars == <<foodCache, ingredientCache, lookups, gatewayCalls, providerErrors, requestRejected>>

\* the ingredients of one request and the ranked lists made for them
VARIABLES parsedIngredients, rankings

rankingVars == <<parsedIngredients, rankings>>

\* one call of handleRecipeUrl: its options, the lists mapParsedToMatched
\* builds, the review queue, the writes made to Notion and the response
VARIABLES intakeOptions, matchedIngredients, unmatched, matches, probables, queueItems, pendingReview, persistedReviews, notionWrites, cursor, intakeResponse

intakeLists == <<matchedIngredients, unmatched, matches, probables, queueItems>>

intakeVars == <<intakeOptions, intakeLists, pendingReview, persistedReviews, notionWrites, cursor, intakeResponse>>

\* two lists of match reasons and what combineScores and scoreCandidate make
\* of them
VARIABLES reasonsA, reasonsB, combined

combineVars == <<reasonsA, reasonsB, combined>>

\* one call of scoreCandidate on a food as buildIndex indexes it
VARIABLES scoreInput, scoreOutput

scoreVars == <<scoreInput, scoreOutput>>

\* a ReviewQueue: whether it has a gateway, its items, the flush calls made
\* on it, the calls gateway.persist got and every item ever enqueued
VARIABLES queueGateway, items, flushCalls, persistCalls, enqueuedItems

queueVars == <<queueGateway, items, flushCalls, persistCalls, enqueuedItems>>

\* the variables of the specifications of single functions and classes
unitVars == <<combineVars, scoreVars, queueVars>>

vars == <<matchVars, normalizerVars, gotchaCheck, cacheVars, rankingVars, intakeVars, unitVars>>

\* no reasons are being combined
CombineIdle == reasonsA = <<>> /\ reasonsB = <<>> /\ combined = Null

\* no candidate is being scored
ScoreIdle == scoreInput = Null /\ scoreOutput = Null

\* a queue without gateway that was never used
QueueIdle ==
  /\ queueGateway = FALSE
  /\ items = <<>>
  /\ flushCalls = <<>>
  /\ persistCalls = <<>>
  /\ enqueuedItems = <<>>

UnitsIdle == CombineIdle /\ ScoreIdle /\ QueueIdle

\* no recipe is being taken in
IntakeIdle ==
  /\ intakeOptions = Null
  /\ matchedIngredients = <<>>
  /\ unmatched = <<>>
  /\ matches = <<>>
  /\ probables = <<>>
  /\ queueItems = <<>>
  /\ pendingReview = <<>>
  /\ persistedReviews = <<>>
  /\ notionWrites = <<>>
  /\ cursor = 0
  /\ intakeResponse = Null

\* no request is being ranked
RankingIdle == parsedIngredients = <<>> /\ rankings = <<>>

\* new Map()
EmptyMap == [k \in {} |-> Null]

\* no embedding cache is in use
CacheIdle ==
  /\ foodCache = EmptyMap
  /\ ingredientCache = EmptyMap
  /\ lookups = <<>>
  /\ gatewayCalls = <<>>
  /\ providerErrors = {}
  /\ requestRejected = FALSE

\* nothing has been normalized
NormalizerIdle == phrase = <<>> /\ normalized = <<>>

\* no veto check has been made
GotchaIdle == gotchaCheck = Null

MAX_CANDIDATES == 5

Init ==
  /\ processEnv \in Environments
  /\ embeddingGateway \in Gateways
  /\ parsedIngredient \in Ingredients
  /\ foodLookup \in {c \in Catalogs(MaxCatalog) : HasDistinctIds(c)}
  /\ pc = "rank"
  /\ rankedCandidates = <<>>
  /\ categorized = Categorized(Null, Null, Null)
  /\ NormalizerIdle
  /\ GotchaIdle
  /\ CacheIdle
  /\ RankingIdle
  /\ IntakeIdle
  /\ UnitsIdle

\* mapParsedToMatched, first half of the loop body: rank and keep the top 5
Rank ==
  /\ pc = "rank"
  /\ rankedCandidates' =
       LET all == rankFoodCandidates(parsedIngredient, foodLookup, embeddingGateway)
       IN SubSeq(all, 1, Min(Len(all), MAX_CANDIDATES))
  /\ pc' = "categorize"
  /\ UNCHANGED <<processEnv, embeddingGateway, parsedIngredient, foodLookup, categorized>>
  /\ UNCHANGED <<normalizerVars, gotchaCheck, cacheVars, rankingVars, intakeVars, unitVars>>

\* mapParsedToMatched, second half: categorizeMatch(rankedCandidates, parsedIngredient)
Categorize ==
  /\ pc = "categorize"
  /\ categorized' =
       categorizeMatch(rankedCandidates, parsedIngredient,
         HARD_MATCH_THRESHOLD(processEnv), SOFT_MATCH_THRESHOLD(processEnv))
  /\ pc' = "done"
  /\ UNCHANGED <<processEnv, embeddingGateway, parsedIngredient, foodLookup, rankedCandidates>>
  /\ UNCHANGED <<normalizerVars, gotchaCheck, cacheVars, rankingVars, intakeVars, unitVars>>

Next == Rank \/ Categorize

Spec == Init /\ [][Next]_vars

\* ------------------------------------------------------------------------
\* Categorizer on ranked lists of the FoodMatchCandidate type
\* ------------------------------------------------------------------------

MaxRanked == 2

CandidateFoods ==
  { f \in FoodPool : f.id \in {"f1", "f2", "f7"} }

CandidateConfidences == {58, 65, 82, 87, 93, 100}

\* a FoodMatchCandidate whose reasons carry, or do not carry, the
\* perfectMatch flag that handleTokenOverlap sets
Candidate(f, confidence, perfect) ==
  [food |-> [id |-> f.id, name |-> f.name, aliases |-> f.aliases],
   confidence |-> confidence,
   reasons |->
     LET overlap == Reason("token-overlap", TOKEN_SCORE_HIGH,
                      [NoMeta EXCEPT !.coverage = <<1, 1>>])
     IN IF perfect
          THEN <<overlap,
                 Reason("token-overlap", EXACT_NAME_SCORE,
                   [NoMeta EXCEPT !.perfectMatch = TRUE,
                                  !.coverage = <<1, 1>>])>>
          ELSE <<overlap>>]

CandidatePool ==
  { Candidate(f, c, p) : f \in CandidateFoods, c \in CandidateConfidences,
                         p \in BOOLEAN }

\* ranked lists as rankFoodCandidates returns them: one candidate per food,
\* confidences non-increasing
RECURSIVE RankedLists(_)
RankedLists(n) ==
  IF n = 0 THEN {<<>>}
  ELSE LET shorter == RankedLists(n - 1)
       IN shorter \cup
          { Append(r, c) :
              r \in {d \in shorter : Len(d) = n - 1},
              c \in CandidatePool }

IsRanked(r) ==
  /\ \A a, b \in 1..Len(r) : r[a].food.id = r[b].food.id => a = b
  /\ \A a \in 1..Len(r) - 1 : r[a].confidence >= r[a + 1].confidence

RECURSIVE foodsOf(_)
foodsOf(r) ==
  IF r = <<>> THEN <<>> ELSE <<Head(r).food>> \o foodsOf(Tail(r))

InitCat ==
  /\ processEnv \in Environments
  /\ embeddingGateway = NoGateway
  /\ parsedIngredient \in {i \in Ingredients : i.name = Chars("salt")}
  /\ rankedCandidates \in {r \in RankedLists(MaxRanked) : IsRanked(r)}
  /\ foodLookup = foodsOf(rankedCandidates)
  /\ pc = "categorize"
  /\ categorized = Categorized(Null, Null, Null)
  /\ NormalizerIdle
  /\ GotchaIdle
  /\ CacheIdle
  /\ RankingIdle
  /\ IntakeIdle
  /\ UnitsIdle

NextCat == Categorize

SpecCat == InitCat /\ [][NextCat]_vars

\* ------------------------------------------------------------------------
\* The normalizer applied to a phrase, and again to its own base name
\* ------------------------------------------------------------------------

MaxFragments == 2

\* pieces of ingredient lines as scraped pages carry them
PhraseFragments ==
  { Chars("salt"), Chars("Tomatoes"), Chars("pepper to"), Chars("taste"),
    Chars(" taste"), Chars("(diced)"), Chars("chopped"), Chars("berries"),
    Chars("Olive-Oil,") }

RECURSIVE FragmentLists(_)
FragmentLists(n) ==
  IF n = 0 THEN {<<>>}
  ELSE FragmentLists(n - 1) \cup
       { Append(l, f) : l \in {m \in FragmentLists(n - 1) : Len(m) = n - 1},
                        f \in PhraseFragments }

Phrases == { joinWithSpace(l) : l \in FragmentLists(MaxFragments) }

\* no ingredient is being matched
MatchingIdle ==
  /\ processEnv = Env(Undefined, Undefined)
  /\ embeddingGateway = NoGateway
  /\ parsedIngredient = Null
  /\ foodLookup = <<>>
  /\ pc = "idle"
  /\ rankedCandidates = <<>>
  /\ categorized = Categorized(Null, Null, Null)

InitNormalize ==
  /\ phrase \in Phrases
  /\ normalized = <<>>
  /\ MatchingIdle
  /\ GotchaIdle
  /\ CacheIdle
  /\ RankingIdle
  /\ IntakeIdle
  /\ UnitsIdle

\* normalizeIngredientName(input)
NormalizeOnce ==
  /\ normalized = <<>>
  /\ pc = "idle"
  /\ normalized' = <<normalizeIngredientName(phrase)>>
  /\ UNCHANGED <<matchVars, phrase, gotchaCheck, cacheVars, rankingVars, intakeVars, unitVars>>

\* normalizeIngredientName on the base name of the first result
NormalizeAgain ==
  /\ Len(normalized) = 1
  /\ normalized' =
       Append(normalized, normalizeIngredientName(normalized[1].baseName))
  /\ UNCHANGED <<matchVars, phrase, gotchaCheck, cacheVars, rankingVars, intakeVars, unitVars>>

NextNormalize == NormalizeOnce \/ NormalizeAgain

SpecNormalize == InitNormalize /\ [][NextNormalize]_vars

\* ------------------------------------------------------------------------
\* The veto check applied to one ingredient and one candidate
\* ------------------------------------------------------------------------

GotchaIngredientNames ==
  { Chars("salt"), Chars("Salt "), Chars("sea salt"), Chars("pepper"),
    Chars("butter"), Chars("stock"), Chars("leaf"), Chars("ground"),
    Chars("beef stock"), Chars("Chicken Stock"), Chars("bay leaf"),
    Chars("beefstock"), Chars("salted"), Chars("") }

GotchaFoods ==
  { Food("g1", "Salted Butter", <<>>), Food("g2", "Table Salt", <<>>),
    Food("g3", "Bell Peppers ", <<>>), Food("g4", "Black Pepper", <<>>),
    Food("g5", "Ground Beef", <<>>), Food("g6", "Chicken Breast", <<>>),
    Food("g7", "Peanut Butter", <<>>), Food("g8", "Romaine Lettuce", <<>>),
    Food("g9", "Beef Stock", <<>>), Food("g10", "Butter", <<>>),
    Food("g11", "Ground Beef Stock", <<>>) }

InitGotcha ==
  /\ processEnv = Env(Undefined, Undefined)
  /\ embeddingGateway = NoGateway
  /\ parsedIngredient \in
       { [name |-> n, normalizedTokens |-> Undefined] :
           n \in GotchaIngredientNames }
  /\ rankedCandidates \in
       { <<Candidate(f, TOKEN_SCORE_HIGH, FALSE)>> : f \in GotchaFoods }
  /\ foodLookup = foodsOf(rankedCandidates)
  /\ pc = "check"
  /\ categorized = Categorized(Null, Null, Null)
  /\ NormalizerIdle
  /\ GotchaIdle
  /\ CacheIdle
  /\ RankingIdle
  /\ IntakeIdle
  /\ UnitsIdle

\* const gotchaCheck = checkProblematicMatch(ingredient, best)
CheckGotcha ==
  /\ pc = "check"
  /\ gotchaCheck' =
       Some(checkProblematicMatch(parsedIngredient, rankedCandidates[1]))
  /\ pc' = "done"
  /\ UNCHANGED <<processEnv, embeddingGateway, parsedIngredient, foodLookup, rankedCandidates, categorized>>
  /\ UNCHANGED <<normalizerVars, cacheVars, rankingVars, intakeVars, unitVars>>

NextGotcha == CheckGotcha

SpecGotcha == InitGotcha /\ [][NextGotcha]_vars

\* ------------------------------------------------------------------------
\* Embedding gateway (OpenAI and Pinecone)
\* ------------------------------------------------------------------------

\* what one call of the provider does
FetchOutcomes == {"hit", "miss", "throws"}
CreateOutcomes == {"vector", "empty", "throws"}
UpsertOutcomes == {"ok", "throws"}

ProviderOutcomes ==
  [fetch : FetchOutcomes, create : CreateOutcomes, upsert : UpsertOutcomes]

\* a settled promise: resolved with a value, or rejected
Resolved(value) == [rejected |-> FALSE, value |-> value]
Rejected == [rejected |-> TRUE, value |-> Null]

\* value.trim().toLowerCase().replace(/\s+/g, " ")
normalizeKey(value) == collapseWhitespace(toLowerCase(trim(value)))

\* [food.name, ...(food.aliases ?? [])].join(" | ")
RECURSIVE joinWithBar(_)
joinWithBar(seq) ==
  IF seq = <<>> THEN <<>>
  ELSE IF Len(seq) = 1 THEN Head(seq)
  ELSE Head(seq) \o Chars(" | ") \o joinWithBar(Tail(seq))

buildFoodEmbeddingText(food) == joinWithBar(<<food.name>> \o food.aliases)

\* the ingredients carry no descriptors
buildIngredientEmbeddingText(ingredient) == ingredient.name

\* response.data[0].embedding: the vector the embedding model gives a text
modelVector(text) ==
  IF includes(toLowerCase(text), Chars("salt")) THEN <<1, 0>> ELSE <<3, 4>>

\* embedText with the provider's failure left uncaught
embedTextUncaught(text, create) ==
  IF trim(text) = <<>> THEN Resolved(Null)
  ELSE IF create = "throws" THEN Rejected
  ELSE IF create = "empty" THEN Resolved(Null)
  ELSE Resolved(Some(modelVector(text)))

embedText(text, create) ==
  IF trim(text) = <<>> THEN Resolved(Null)
  ELSE IF create = "throws" THEN Resolved(Null)
  ELSE IF create = "empty" THEN Resolved(Null)
  ELSE Resolved(Some(modelVector(text)))

\* the vector stored under an id is the one upserted for the food's text
fetchVector(food, fetch) ==
  IF fetch = "throws" THEN Resolved(Null)
  ELSE IF fetch = "miss" THEN Resolved(Null)
  ELSE Resolved(Some(modelVector(buildFoodEmbeddingText(food))))

\* try { await this.index.upsert(...) } catch { logger.warn(...) }
upsertEmbedding(embedding, upsert) == embedding

\* embedFood after the fetch: the text is embedded and upserted
embedFoodText(food, embedding, upsert) ==
  IF embedding.rejected \/ embedding.value = Null THEN embedding
  ELSE upsertEmbedding(embedding, upsert)

embedFoodFetched(food, cached, outcome) ==
  IF cached.rejected \/ cached.value # Null THEN cached
  ELSE embedFoodText(food,
         embedText(buildFoodEmbeddingText(food), outcome.create),
         outcome.upsert)

embedFood(food, outcome) ==
  embedFoodFetched(food, fetchVector(food, outcome.fetch), outcome)

embedIngredient(ingredient, outcome) ==
  embedText(buildIngredientEmbeddingText(ingredient), outcome.create)

\* did a call of the provider throw during embedFood
foodProviderThrew(food, outcome) ==
  \/ outcome.fetch = "throws"
  \/ /\ outcome.fetch = "miss"
     /\ \/ outcome.create = "throws"
        \/ outcome.create = "vector" /\ outcome.upsert = "throws"

\* did the call of the provider throw during embedIngredient
ingredientProviderThrew(ingredient, outcome) ==
  /\ trim(buildIngredientEmbeddingText(ingredient)) # <<>>
  /\ outcome.create = "throws"

\* ------------------------------------------------------------------------
\* Embedding cache
\* ------------------------------------------------------------------------

MaxLookups == 2

\* `${prefix}:${normalizeKey(value ?? "")}`
cacheKey(prefix, value) == Chars(prefix) \o <<":">> \o normalizeKey(value)

\* a call of EmbeddingCache.embedFood
FoodLookup(food) ==
  [cache |-> "food", subject |-> food, key |-> cacheKey("food", Chars(food.id)),
   status |-> "called", value |-> Null]

\* a call of EmbeddingCache.embedIngredient
IngredientLookup(ingredient) ==
  [cache |-> "ingredient", subject |-> ingredient,
   key |-> cacheKey("ingredient", ingredient.name),
   status |-> "called", value |-> Null]

\* a cache that stores nothing
mapSetNothing(cache, key, value) == cache

\* cache.set(key, embedding ?? null)
mapSet(cache, key, value) ==
  [k \in DOMAIN cache \cup {key} |-> IF k = key THEN value ELSE cache[k]]

\* cacheLookup up to its await: a hit returns, a miss calls the resolver
CacheLookupBegin(n) ==
  /\ ~requestRejected
  /\ lookups[n].status = "called"
  /\ IF lookups[n].cache = "food"
       THEN IF lookups[n].key \in DOMAIN foodCache
              THEN /\ lookups' = [lookups EXCEPT ![n].status = "returned",
                                     ![n].value = foodCache[lookups[n].key]]
                   /\ UNCHANGED gatewayCalls
              ELSE /\ lookups' = [lookups EXCEPT ![n].status = "awaiting"]
                   /\ gatewayCalls' = Append(gatewayCalls, lookups[n].key)
       ELSE IF lookups[n].key \in DOMAIN ingredientCache
              THEN /\ lookups' = [lookups EXCEPT ![n].status = "returned",
                                     ![n].value = ingredientCache[lookups[n].key]]
                   /\ UNCHANGED gatewayCalls
              ELSE /\ lookups' = [lookups EXCEPT ![n].status = "awaiting"]
                   /\ gatewayCalls' = Append(gatewayCalls, lookups[n].key)
  /\ UNCHANGED <<foodCache, ingredientCache, providerErrors, requestRejected>>

\* cacheLookup after its await, when the resolver's promise has settled
CacheLookupSettle(n, embedding, threw) ==
  /\ providerErrors' =
       IF threw THEN providerErrors \cup {lookups[n].key} ELSE providerErrors
  /\ IF embedding.rejected
       THEN /\ requestRejected' = TRUE
            /\ lookups' = [lookups EXCEPT ![n].status = "rejected"]
            /\ UNCHANGED <<foodCache, ingredientCache>>
       ELSE /\ requestRejected' = FALSE
            /\ lookups' = [lookups EXCEPT ![n].status = "returned",
                                          ![n].value = embedding.value]
            /\ IF lookups[n].cache = "food"
                 THEN /\ foodCache' =
                           mapSet(foodCache, lookups[n].key, embedding.value)
                      /\ UNCHANGED ingredientCache
                 ELSE /\ ingredientCache' =
                           mapSet(ingredientCache, lookups[n].key,
                                  embedding.value)
                      /\ UNCHANGED foodCache
  /\ UNCHANGED gatewayCalls

\* the gateway call of a lookup settles, whatever the provider did
GatewayResolves(n) ==
  /\ ~requestRejected
  /\ lookups[n].status = "awaiting"
  /\ \E outcome \in ProviderOutcomes :
       IF lookups[n].cache = "food"
         THEN CacheLookupSettle(n, embedFood(lookups[n].subject, outcome),
                foodProviderThrew(lookups[n].subject, outcome))
         ELSE CacheLookupSettle(n, embedIngredient(lookups[n].subject, outcome),
                ingredientProviderThrew(lookups[n].subject, outcome))

\* the foods and ingredients looked up
CachedFoods == { f \in FoodPool : f.id \in {"f1", "f2"} }

CachedIngredients ==
  { [name |-> n, normalizedTokens |-> Undefined] :
      n \in {Chars("salt"), Chars("Salt "), Chars("pepper")} }

LookupPool ==
  { FoodLookup(f) : f \in CachedFoods }
  \cup { IngredientLookup(i) : i \in CachedIngredients }

RECURSIVE LookupLists(_)
LookupLists(n) ==
  IF n = 0 THEN {<<>>}
  ELSE LookupLists(n - 1) \cup
       { Append(l, c) : l \in {m \in LookupLists(n - 1) : Len(m) = n - 1},
                        c \in LookupPool }

ProviderGateway == [name |-> "openai-pinecone"]

\* lookups made of one cache by callers that do not wait for each other
InitCache ==
  /\ lookups \in LookupLists(MaxLookups)
  /\ foodCache = EmptyMap
  /\ ingredientCache = EmptyMap
  /\ gatewayCalls = <<>>
  /\ providerErrors = {}
  /\ requestRejected = FALSE
  /\ processEnv = Env(Undefined, Undefined)
  /\ embeddingGateway = ProviderGateway
  /\ parsedIngredient = Null
  /\ foodLookup = <<>>
  /\ pc = "lookups"
  /\ rankedCandidates = <<>>
  /\ categorized = Categorized(Null, Null, Null)
  /\ NormalizerIdle
  /\ GotchaIdle
  /\ RankingIdle
  /\ IntakeIdle
  /\ UnitsIdle

BeginLookup ==
  /\ pc = "lookups"
  /\ \E n \in DOMAIN lookups : CacheLookupBegin(n)
  /\ UNCHANGED <<matchVars, normalizerVars, gotchaCheck, rankingVars, intakeVars, unitVars>>

SettleLookup ==
  /\ pc = "lookups"
  /\ \E n \in DOMAIN lookups : GatewayResolves(n)
  /\ UNCHANGED <<matchVars, normalizerVars, gotchaCheck, rankingVars, intakeVars, unitVars>>

NextCache == BeginLookup \/ SettleLookup

SpecCache == InitCache /\ [][NextCache]_vars

\* ------------------------------------------------------------------------
\* Ranking the ingredients of one request through the embedding cache
\* ------------------------------------------------------------------------

MaxParsed == 2

RECURSIVE ParsedLists(_)
ParsedLists(n) ==
  IF n = 0 THEN {<<>>}
  ELSE ParsedLists(n - 1) \cup
       { Append(l, i) : l \in {m \in ParsedLists(n - 1) : Len(m) = n - 1},
                        i \in CachedIngredients }

\* the food lookup tables of the requests
CachedCatalogs ==
  { c \in Catalogs(2) :
      HasDistinctIds(c) /\ \A k \in 1..Len(c) : c[k] \in CachedFoods }

\* the lookups one call of rankFoodCandidates makes, in order
lookupsOfRanking(ingredient, foods) ==
  IF foods = <<>> THEN <<>>
  ELSE <<IngredientLookup(ingredient)>>
       \o [j \in 1..Len(foods) |-> FoodLookup(foods[j])]

\* the lookups of the loop of mapParsedToMatched, in order
RECURSIVE lookupsOfRequest(_, _)
lookupsOfRequest(ingredients, foods) ==
  IF ingredients = <<>> THEN <<>>
  ELSE lookupsOfRanking(Head(ingredients), foods)
       \o lookupsOfRequest(Tail(ingredients), foods)

\* the vectors a lookup can return
PossibleEmbeddings == {Null, Some(<<1, 0>>), Some(<<3, 4>>)}

\* the result of the loop body of rankFoodCandidates for the ingredients,
\* foods and vectors of the requests, computed once
ScoredWithEmbeddings ==
  [i \in CachedIngredients, f \in CachedFoods,
   ingredientEmbedding \in PossibleEmbeddings,
   candidateEmbedding \in PossibleEmbeddings |->
     scoreCandidate(i, indexFood(f),
       [ingredientEmbedding |-> ingredientEmbedding,
        candidateEmbedding |-> candidateEmbedding])]

\* the position in lookups of the first lookup of the k-th ingredient
firstLookupOf(k) == (k - 1) * (1 + Len(foodLookup)) + 1

\* rankFoodCandidates with the vectors its lookups returned
rankWithEmbeddings(k) ==
  IF foodLookup = <<>> THEN <<>>
  ELSE sortByConfidence(
         flatten([j \in 1..Len(foodLookup) |->
           ScoredWithEmbeddings[parsedIngredients[k], foodLookup[j],
             lookups[firstLookupOf(k)].value,
             lookups[firstLookupOf(k) + j].value]]), <<>>)

InitRanking ==
  /\ parsedIngredients \in ParsedLists(MaxParsed)
  /\ foodLookup \in CachedCatalogs
  /\ lookups = lookupsOfRequest(parsedIngredients, foodLookup)
  /\ rankings = <<>>
  /\ foodCache = EmptyMap
  /\ ingredientCache = EmptyMap
  /\ gatewayCalls = <<>>
  /\ providerErrors = {}
  /\ requestRejected = FALSE
  /\ processEnv = Env(Undefined, Undefined)
  /\ embeddingGateway = ProviderGateway
  /\ parsedIngredient = Null
  /\ pc = "ranking"
  /\ rankedCandidates = <<>>
  /\ categorized = Categorized(Null, Null, Null)
  /\ NormalizerIdle
  /\ GotchaIdle
  /\ IntakeIdle
  /\ UnitsIdle

\* await options.embeddingCache.embedIngredient / embedFood: the next lookup
\* of the ingredient being ranked starts when the one before has returned
AwaitedLookupBegin ==
  /\ pc = "ranking"
  /\ \E n \in DOMAIN lookups :
       /\ \A m \in 1..(n - 1) : lookups[m].status = "returned"
       /\ n < firstLookupOf(Len(rankings) + 2)
       /\ CacheLookupBegin(n)
  /\ UNCHANGED <<matchVars, normalizerVars, gotchaCheck, rankingVars, intakeVars, unitVars>>

AwaitedLookupSettle ==
  /\ pc = "ranking"
  /\ \E n \in DOMAIN lookups : GatewayResolves(n)
  /\ UNCHANGED <<matchVars, normalizerVars, gotchaCheck, rankingVars, intakeVars, unitVars>>

\* the lookups of an ingredient have returned: its candidates are sorted
RankIngredient ==
  /\ pc = "ranking"
  /\ ~requestRejected
  /\ Len(rankings) < Len(parsedIngredients)
  /\ \A n \in DOMAIN lookups :
       n < firstLookupOf(Len(rankings) + 2) => lookups[n].status = "returned"
  /\ rankings' = Append(rankings, rankWithEmbeddings(Len(rankings) + 1))
  /\ UNCHANGED <<matchVars, normalizerVars, gotchaCheck, cacheVars, parsedIngredients, intakeVars, unitVars>>

NextRanking == AwaitedLookupBegin \/ AwaitedLookupSettle \/ RankIngredient

SpecRanking == InitRanking /\ [][NextRanking]_vars

\* ------------------------------------------------------------------------
\* Recipe intake: handleRecipeUrl
\* ------------------------------------------------------------------------

MaxIntake == 2

\* parsed ingredient lines: names with letters only, and one blank name
IntakeIngredients ==
  { i \in Ingredients :
      /\ i.normalizedTokens = Undefined
      /\ i.name \in {Chars("salt"), Chars("pepper"), Chars("chicken breast"),
                     Chars(" ")} }

RECURSIVE IntakeLists(_)
IntakeLists(n) ==
  IF n = 0 THEN {<<>>}
  ELSE IntakeLists(n - 1) \cup
       { Append(l, i) : l \in {m \in IntakeLists(n - 1) : Len(m) = n - 1},
                        i \in IntakeIngredients }

foodById(id) == CHOOSE f \in FoodPool : f.id = id

\* what notionClient.fetchFoodLookup() resolves with
NotionFoodLookup == <<foodById("f2"), foodById("f6")>>

\* options.foodLookup when the caller gives it
GivenFoodLookups ==
  { <<>>, <<foodById("f8"), foodById("f5")>>,
    <<foodById("f3"), foodById("f4")>> }

\* RecipeIntakeOptions: the two gateways are there or not
IntakeOptionSets ==
  [persistToNotion : BOOLEAN, notionClient : BOOLEAN,
   reviewQueueGateway : BOOLEAN,
   foodLookup : {Undefined} \cup { Some(c) : c \in GivenFoodLookups }]

\* a promise rejected with the error of the call that threw
Thrown(call) == [rejected |-> TRUE, value |-> call]

NotionOutcomes == {"ok", "throws"}

UsdaOutcomes == {"match", "none", "throws"}

\* a write made to Notion: the method, what it was given, how it ended
NotionWrite(method, argument, outcome) ==
  [method |-> method, argument |-> argument, outcome |-> outcome]

\* (await rankFoodCandidates(...)).slice(0, MAX_CANDIDATES)
topCandidates(all) == SubSeq(all, 1, Min(Len(all), MAX_CANDIDATES))

\* autoMatch ?? probableMatch ?? best ?? null
chosenMatch(category) ==
  IF category.autoMatch # Null THEN category.autoMatch
  ELSE IF category.probableMatch # Null THEN category.probableMatch
  ELSE category.best

\* ingredientWithMatch with the vetoed candidates taken out of candidates
ingredientWithValidCandidates(ingredient, ranked, category) ==
  [ingredient |-> ingredient,
   foodId |-> IF category.autoMatch = Null THEN Null
              ELSE Some(category.autoMatch[1].food.id),
   match |-> chosenMatch(category),
   candidates |->
     SelectSeq(ranked,
       LAMBDA c : ~checkProblematicMatch(ingredient, c).isProblematic)]

\* ingredientWithMatch with the foodId of the chosen match
ingredientWithChosenFoodId(ingredient, ranked, category) ==
  [ingredient |-> ingredient,
   foodId |-> IF chosenMatch(category) = Null THEN Null
              ELSE Some(chosenMatch(category)[1].food.id),
   match |-> chosenMatch(category),
   candidates |-> ranked]

\* ingredientWithMatch: foodId is autoMatch?.food.id ?? null
ingredientWithMatch(ingredient, ranked, category) ==
  [ingredient |-> ingredient,
   foodId |-> IF category.autoMatch = Null THEN Null
              ELSE Some(category.autoMatch[1].food.id),
   match |-> chosenMatch(category),
   candidates |-> ranked]

\* { ingredient, candidate: best ?? null }
ReviewQueueItem(ingredient, category) ==
  [ingredient |-> ingredient, candidate |-> category.best]

\* the lists of mapParsedToMatched after the loop body ran for an ingredient
pushMatched(ingredient, ranked, category) ==
  /\ matchedIngredients' =
       Append(matchedIngredients, ingredientWithMatch(ingredient, ranked, category))
  /\ IF category.autoMatch # Null
       THEN /\ matches' =
                 Append(matches, ingredientWithMatch(ingredient, ranked, category))
            /\ UNCHANGED <<unmatched, probables, queueItems>>
       ELSE /\ unmatched' = Append(unmatched, ingredient)
            /\ probables' =
                 IF category.probableMatch # Null
                   THEN Append(probables,
                          ingredientWithMatch(ingredient, ranked, category))
                   ELSE probables
            /\ queueItems' =
                 Append(queueItems, ReviewQueueItem(ingredient, category))
            /\ UNCHANGED matches

\* the loop body of mapParsedToMatched for an ingredient and its ranking
matchRanked(ingredient, ranked) ==
  pushMatched(ingredient, ranked,
    categorizeMatch(ranked, ingredient,
      HARD_MATCH_THRESHOLD(processEnv), SOFT_MATCH_THRESHOLD(processEnv)))

\* persistToNotion handing over every ingredient
withAnyFoodId(ingredients) == ingredients

\* ingredients.filter((ingredient) => ingredient.foodId)
RECURSIVE withFoodId(_)
withFoodId(ingredients) ==
  IF ingredients = <<>> THEN <<>>
  ELSE IF Head(ingredients).foodId # Null /\ Head(ingredients).foodId # <<"">>
    THEN <<Head(ingredients)>> \o withFoodId(Tail(ingredients))
    ELSE withFoodId(Tail(ingredients))

\* processUnmatchedIngredient: skipped for a blank name, otherwise the USDA
\* lookup (a failure of it is caught) and then createFoodEntry, whose
\* failure is thrown on
processUnmatchedIngredient(ingredient, usda, created) ==
  IF trim(ingredient.name) = <<>> THEN Resolved("skipped")
  ELSE IF created = "throws" THEN Thrown("createFoodEntry")
  ELSE Resolved("success")

\* the createFoodEntry call of processUnmatchedIngredient, if it is reached
foodEntryWrites(ingredient, usda, created) ==
  IF trim(ingredient.name) = <<>> THEN <<>>
  ELSE <<NotionWrite("createFoodEntry",
           [ingredient |-> ingredient,
            usdaId |-> IF usda = "match" THEN Some(1) ELSE Null],
           created)>>

\* the loop of persistUnmatchedToFoodLookup without its try / catch
processedUncaught(result) == result

\* try { await processUnmatchedIngredient(...) } catch { errorCount += 1 }
processedCaught(result) ==
  IF result.rejected THEN Resolved("error") ELSE result

InitIntake ==
  /\ intakeOptions \in IntakeOptionSets
  /\ parsedIngredients \in IntakeLists(MaxIntake)
  /\ processEnv = Env(Undefined, Undefined)
  /\ embeddingGateway = NoGateway
  /\ parsedIngredient = Null
  /\ foodLookup = <<>>
  /\ pc = "foodLookup"
  /\ rankedCandidates = <<>>
  /\ categorized = Categorized(Null, Null, Null)
  /\ rankings = <<>>
  /\ matchedIngredients = <<>>
  /\ unmatched = <<>>
  /\ matches = <<>>
  /\ probables = <<>>
  /\ queueItems = <<>>
  /\ pendingReview = <<>>
  /\ persistedReviews = <<>>
  /\ notionWrites = <<>>
  /\ cursor = 0
  /\ intakeResponse = Null
  /\ NormalizerIdle
  /\ GotchaIdle
  /\ CacheIdle
  /\ UnitsIdle

\* options.foodLookup ?? (notionClient ? await fetchFoodLookup() : [])
PrepareFoodLookup ==
  /\ pc = "foodLookup"
  /\ IF intakeOptions.foodLookup # Undefined
       THEN /\ foodLookup' = intakeOptions.foodLookup[1]
            /\ pc' = "match"
            /\ UNCHANGED intakeResponse
       ELSE IF intakeOptions.notionClient
         THEN \E fetched \in NotionOutcomes :
                IF fetched = "throws"
                  THEN /\ intakeResponse' = Thrown("fetchFoodLookup")
                       /\ pc' = "done"
                       /\ UNCHANGED foodLookup
                  ELSE /\ foodLookup' = NotionFoodLookup
                       /\ pc' = "match"
                       /\ UNCHANGED intakeResponse
         ELSE /\ foodLookup' = <<>>
              /\ pc' = "match"
              /\ UNCHANGED intakeResponse
  /\ UNCHANGED <<processEnv, embeddingGateway, parsedIngredient, rankedCandidates, categorized>>
  /\ UNCHANGED <<normalizerVars, gotchaCheck, cacheVars, rankingVars, unitVars>>
  /\ UNCHANGED <<intakeOptions, intakeLists, pendingReview, persistedReviews, notionWrites, cursor>>

\* mapParsedToMatched, the loop body for the next ingredient
MatchIngredient ==
  /\ pc = "match"
  /\ Len(matchedIngredients) < Len(parsedIngredients)
  /\ matchRanked(parsedIngredients[Len(matchedIngredients) + 1],
       topCandidates(rankFoodCandidates(
         parsedIngredients[Len(matchedIngredients) + 1], foodLookup,
         embeddingGateway)))
  /\ UNCHANGED <<matchVars, normalizerVars, gotchaCheck, cacheVars, rankingVars, unitVars>>
  /\ UNCHANGED <<intakeOptions, pendingReview, persistedReviews, notionWrites, cursor, intakeResponse>>

\* reviewQueue.flush() at the end of mapParsedToMatched, and the branch of
\* handleRecipeUrl on options.persistToNotion && options.notionClient
FlushReviewQueue ==
  /\ pc = "match"
  /\ Len(matchedIngredients) = Len(parsedIngredients)
  /\ pendingReview' = queueItems
  /\ queueItems' = <<>>
  /\ persistedReviews' =
       IF intakeOptions.reviewQueueGateway /\ queueItems # <<>>
         THEN Append(persistedReviews, queueItems)
         ELSE persistedReviews
  /\ pc' = IF intakeOptions.persistToNotion /\ intakeOptions.notionClient
             THEN "createRecipePage" ELSE "respond"
  /\ UNCHANGED <<processEnv, embeddingGateway, parsedIngredient, foodLookup, rankedCandidates, categorized>>
  /\ UNCHANGED <<normalizerVars, gotchaCheck, cacheVars, rankingVars, unitVars>>
  /\ UNCHANGED <<intakeOptions, matchedIngredients, unmatched, matches, probables, notionWrites, cursor, intakeResponse>>

\* recipePageId = await notionClient.createRecipePage(recipe, unmatched.length > 0)
CreateRecipePage ==
  /\ pc = "createRecipePage"
  /\ \E created \in NotionOutcomes :
       /\ notionWrites' =
            Append(notionWrites,
              NotionWrite("createRecipePage", unmatched # <<>>, created))
       /\ IF created = "throws"
            THEN /\ intakeResponse' = Thrown("createRecipePage")
                 /\ pc' = "done"
            ELSE /\ pc' = "persistToNotion"
                 /\ UNCHANGED intakeResponse
  /\ UNCHANGED <<processEnv, embeddingGateway, parsedIngredient, foodLookup, rankedCandidates, categorized>>
  /\ UNCHANGED <<normalizerVars, gotchaCheck, cacheVars, rankingVars, unitVars>>
  /\ UNCHANGED <<intakeOptions, intakeLists, pendingReview, persistedReviews, cursor>>

\* persistToNotion(notionClient, recipePageId, matched)
PersistToNotion ==
  /\ pc = "persistToNotion"
  /\ IF withFoodId(matchedIngredients) = <<>>
       THEN /\ pc' = "persistUnmatched"
            /\ UNCHANGED <<notionWrites, intakeResponse>>
       ELSE \E created \in NotionOutcomes :
              /\ notionWrites' =
                   Append(notionWrites,
                     NotionWrite("createIngredientEntries",
                       withFoodId(matchedIngredients), created))
              /\ IF created = "throws"
                   THEN /\ intakeResponse' = Thrown("createIngredientEntries")
                        /\ pc' = "done"
                   ELSE /\ pc' = "persistUnmatched"
                        /\ UNCHANGED intakeResponse
  /\ UNCHANGED <<processEnv, embeddingGateway, parsedIngredient, foodLookup, rankedCandidates, categorized>>
  /\ UNCHANGED <<normalizerVars, gotchaCheck, cacheVars, rankingVars, unitVars>>
  /\ UNCHANGED <<intakeOptions, intakeLists, pendingReview, persistedReviews, cursor>>

\* persistUnmatchedToFoodLookup, the loop body for the next unmatched
\* ingredient; after the last one handleRecipeUrl goes on to its response
PersistUnmatched ==
  /\ pc = "persistUnmatched"
  /\ IF cursor >= Len(unmatched)
       THEN /\ pc' = "respond"
            /\ UNCHANGED <<notionWrites, cursor, intakeResponse>>
       ELSE \E usda \in UsdaOutcomes, created \in NotionOutcomes :
              /\ notionWrites' =
                   notionWrites
                   \o foodEntryWrites(unmatched[cursor + 1], usda, created)
              /\ IF processedCaught(processUnmatchedIngredient(
                      unmatched[cursor + 1], usda, created)).rejected
                   THEN /\ intakeResponse' = Thrown("createFoodEntry")
                        /\ pc' = "done"
                        /\ UNCHANGED cursor
                   ELSE /\ cursor' = cursor + 1
                        /\ UNCHANGED <<pc, intakeResponse>>
  /\ UNCHANGED <<processEnv, embeddingGateway, parsedIngredient, foodLookup, rankedCandidates, categorized>>
  /\ UNCHANGED <<normalizerVars, gotchaCheck, cacheVars, rankingVars, unitVars>>
  /\ UNCHANGED <<intakeOptions, intakeLists, pendingReview, persistedReviews>>

\* return { recipe, ingredients: matched, unmatched, matches, probables, pendingReview, rawSchema }
Respond ==
  /\ pc = "respond"
  /\ intakeResponse' =
       Resolved([ingredients |-> matchedIngredients, unmatched |-> unmatched,
                 matches |-> matches, probables |-> probables,
                 pendingReview |-> pendingReview])
  /\ pc' = "done"
  /\ UNCHANGED <<processEnv, embeddingGateway, parsedIngredient, foodLookup, rankedCandidates, categorized>>
  /\ UNCHANGED <<normalizerVars, gotchaCheck, cacheVars, rankingVars, unitVars>>
  /\ UNCHANGED <<intakeOptions, intakeLists, pendingReview, persistedReviews, notionWrites, cursor>>

NextIntake ==
  \/ PrepareFoodLookup
  \/ MatchIngredient
  \/ FlushReviewQueue
  \/ CreateRecipePage
  \/ PersistToNotion
  \/ PersistUnmatched
  \/ Respond

SpecIntake == InitIntake /\ [][NextIntake]_vars

\* ------------------------------------------------------------------------
\* combineScores on lists of reasons
\* ------------------------------------------------------------------------

MaxReasons == 3

\* reason scores: nothing, a rounded fuzzy score, a rounded similarity, and
\* TOKEN_SCORE_HIGH
ReasonScores == {0, 47, 72, TOKEN_SCORE_HIGH}

RECURSIVE ReasonLists(_)
ReasonLists(n) ==
  IF n = 0 THEN {<<>>}
  ELSE ReasonLists(n - 1) \cup
       { Append(l, Reason("fuzzy-similarity", s, NoMeta)) :
           l \in {m \in ReasonLists(n - 1) : Len(m) = n - 1},
           s \in ReasonScores }

\* what scoreCandidate does with a reasons array once it is filled
Combined(candidate, reasons) ==
  [confidence |-> combineScores(reasons),
   scored |-> candidateFromReasons(candidate, reasons)]

InitCombine ==
  /\ reasonsA \in ReasonLists(MaxReasons)
  /\ reasonsB \in ReasonLists(MaxReasons)
  /\ combined = Null
  /\ MatchingIdle
  /\ NormalizerIdle
  /\ GotchaIdle
  /\ CacheIdle
  /\ RankingIdle
  /\ IntakeIdle
  /\ ScoreIdle
  /\ QueueIdle

\* combineScores(reasons) for the reasons of two candidates
CombineScores ==
  /\ combined = Null
  /\ combined' =
       Some([a |-> Combined(foodById("f1"), reasonsA),
             b |-> Combined(foodById("f2"), reasonsB)])
  /\ UNCHANGED <<matchVars, normalizerVars, gotchaCheck, cacheVars, rankingVars, intakeVars>>
  /\ UNCHANGED <<reasonsA, reasonsB, scoreVars, queueVars>>

NextCombine == CombineScores

SpecCombine == InitCombine /\ [][NextCombine]_vars

\* ------------------------------------------------------------------------
\* scoreCandidate on one ingredient and one indexed catalog entry
\* ------------------------------------------------------------------------

ScoredIngredientNames ==
  { Chars("salt"), Chars("sea salt"), Chars("pepper"),
    Chars("chicken breast"), Chars("breast chicken"),
    Chars("Chicken Breasts"), Chars("chicken"), Chars("") }

ScoredIngredients ==
  { [name |-> n, normalizedTokens |-> Undefined] : n \in ScoredIngredientNames }
  \cup { [name |-> Chars("salt"),
          normalizedTokens |-> Some(<<Chars("salt"), Chars("sea")>>)] }

\* catalog entries, some of them with a name that is empty or that
\* normalizes to nothing
ScoredFoods ==
  { f \in FoodPool : f.id \in {"f1", "f2", "f6", "f7", "f8"} }
  \cup { Food("s1", "Sea Salted Butter", <<>>),
         Food("s2", "Chicken Breast Fillet", <<>>),
         Food("e1", "", <<>>),
         Food("e2", "", <<Chars("salt")>>),
         Food("e3", " ", <<>>),
         Food("e4", "()", <<>>) }

\* ScoreCandidateOptions: no vectors, one vector, two vectors at cosine 1,
\* two at cosine 0.6, two at cosine 0
ScoredOptions ==
  { [ingredientEmbedding |-> a, candidateEmbedding |-> b] :
      a \in {Null, Some(<<1, 0>>)},
      b \in {Null, Some(<<1, 0>>), Some(<<3, 4>>), Some(<<0, 1>>)} }

InitScore ==
  /\ scoreInput \in
       { Some([ingredient |-> i, food |-> f, options |-> o]) :
           i \in ScoredIngredients, f \in ScoredFoods, o \in ScoredOptions }
  /\ scoreOutput = Null
  /\ MatchingIdle
  /\ NormalizerIdle
  /\ GotchaIdle
  /\ CacheIdle
  /\ RankingIdle
  /\ IntakeIdle
  /\ CombineIdle
  /\ QueueIdle

\* buildIndex for the food, then the body of the loop of rankFoodCandidates
ScoreOnce(ingredient, indexed, options) ==
  [indexed |-> indexed,
   candidate |-> scoreCandidate(ingredient, indexed, options)]

ScoreCandidate ==
  /\ scoreInput # Null
  /\ scoreOutput = Null
  /\ scoreOutput' =
       Some(ScoreOnce(scoreInput[1].ingredient, indexFood(scoreInput[1].food),
                      scoreInput[1].options))
  /\ UNCHANGED <<matchVars, normalizerVars, gotchaCheck, cacheVars, rankingVars, intakeVars>>
  /\ UNCHANGED <<combineVars, scoreInput, queueVars>>

NextScore == ScoreCandidate

SpecScore == InitScore /\ [][NextScore]_vars

\* ------------------------------------------------------------------------
\* ReviewQueue: enqueue and flush calls in any interleaving
\* ------------------------------------------------------------------------

MaxEnqueued == 3

MaxFlushes == 3

\* what the callers of enqueue pass: an ingredient and a candidate, if any
EnqueueInputs ==
  { [ingredient |-> [name |-> Chars("salt"), normalizedTokens |-> Undefined],
     candidate |-> Undefined],
    [ingredient |-> [name |-> Chars("salt"), normalizedTokens |-> Undefined],
     candidate |-> Some(Candidate(foodById("f2"), TOKEN_SCORE_LOW, FALSE))],
    [ingredient |-> [name |-> Chars("pepper"), normalizedTokens |-> Undefined],
     candidate |-> Null] }

\* what gateway.persist(snapshot) does to the promise it returned
PersistOutcomes == {"ok", "throws"}

\* { ingredient, candidate: candidate ?? null }
queuedItem(ingredient, candidate) ==
  [ingredient |-> ingredient,
   candidate |-> IF candidate = Undefined THEN Null ELSE candidate]

\* a call of flush(): its snapshot and, once it is over, its promise
FlushCall(snapshot, settled) == [snapshot |-> snapshot, settled |-> settled]

\* this.items.length = 0
flushClearingItems(queued) == <<>>

InitQueue ==
  /\ queueGateway \in BOOLEAN
  /\ items = <<>>
  /\ flushCalls = <<>>
  /\ persistCalls = <<>>
  /\ enqueuedItems = <<>>
  /\ MatchingIdle
  /\ NormalizerIdle
  /\ GotchaIdle
  /\ CacheIdle
  /\ RankingIdle
  /\ IntakeIdle
  /\ CombineIdle
  /\ ScoreIdle

\* enqueue(ingredient, candidate)
Enqueue ==
  /\ Len(enqueuedItems) < MaxEnqueued
  /\ \E input \in EnqueueInputs :
       /\ items' = Append(items, queuedItem(input.ingredient, input.candidate))
       /\ enqueuedItems' =
            Append(enqueuedItems, queuedItem(input.ingredient, input.candidate))
  /\ UNCHANGED <<queueGateway, flushCalls, persistCalls>>
  /\ UNCHANGED <<matchVars, normalizerVars, gotchaCheck, cacheVars, rankingVars, intakeVars>>
  /\ UNCHANGED <<combineVars, scoreVars>>

\* flush() up to its await: the snapshot is taken, the items are emptied and
\* gateway.persist(snapshot) is called; without gateway or without items the
\* call returns the snapshot at once
FlushBegin ==
  /\ Len(flushCalls) < MaxFlushes
  /\ items' = flushClearingItems(items)
  /\ IF queueGateway /\ Len(items) > 0
       THEN /\ persistCalls' = Append(persistCalls, items)
            /\ flushCalls' = Append(flushCalls, FlushCall(items, Null))
       ELSE /\ flushCalls' =
                 Append(flushCalls, FlushCall(items, Some(Resolved(items))))
            /\ UNCHANGED persistCalls
  /\ UNCHANGED <<queueGateway, enqueuedItems>>
  /\ UNCHANGED <<matchVars, normalizerVars, gotchaCheck, cacheVars, rankingVars, intakeVars>>
  /\ UNCHANGED <<combineVars, scoreVars>>

\* the promise of gateway.persist settles: flush() returns its snapshot, or
\* is rejected with the error of persist
FlushSettle ==
  /\ \E n \in 1..Len(flushCalls), outcome \in PersistOutcomes :
       /\ flushCalls[n].settled = Null
       /\ flushCalls' =
            [flushCalls EXCEPT ![n].settled =
               IF outcome = "throws" THEN Some(Thrown("persist"))
               ELSE Some(Resolved(flushCalls[n].snapshot))]
  /\ UNCHANGED <<queueGateway, items, persistCalls, enqueuedItems>>
  /\ UNCHANGED <<matchVars, normalizerVars, gotchaCheck, cacheVars, rankingVars, intakeVars>>
  /\ UNCHANGED <<combineVars, scoreVars>>

NextQueue == Enqueue \/ FlushBegin \/ FlushSettle

SpecQueue == InitQueue /\ [][NextQueue]_vars

\* ------------------------------------------------------------------------
\* Properties
\* ------------------------------------------------------------------------

\* the catalog entries as buildIndex sees them, computed once
IndexedFoods == [f \in FoodPool |-> indexFood(f)]

\* the ingredient's comparison name and token set, computed once
IngredientKeys ==
  [i \in Ingredients |->
     [name |-> normalizeForComparison(i.name),
      tokens |-> Range(IF i.normalizedTokens # Undefined
                         THEN i.normalizedTokens[1]
                         ELSE normalizeIngredientName(i.name).tokens)]]

\* the reasons array of every pair, computed once
SignalsFired ==
  [i \in Ingredients, f \in FoodPool, g \in Gateways |->
     candidateReasons(i, indexFood(f), embeddingOptions(g, i, f))]

CatalogPosition(id) ==
  CHOOSE k \in 1..Len(foodLookup) : foodLookup[k].id = id

RankedFor(id) ==
  {k \in 1..Len(rankedCandidates) : rankedCandidates[k].food.id = id}

HasReasonOfType(c, type) ==
  \E k \in 1..Len(c.reasons) : c.reasons[k].type = type

Flagged(k) ==
  checkProblematicMatch(parsedIngredient, rankedCandidates[k]).isProblematic

\* C1: the ranked list has non-increasing confidences, and candidates of
\* equal confidence keep the relative order of their catalog entries
C1_RankedSortedStable ==
  pc # "rank" =>
    \A a, b \in 1..Len(rankedCandidates) :
      a < b =>
        /\ rankedCandidates[a].confidence >= rankedCandidates[b].confidence
        /\ rankedCandidates[a].confidence = rankedCandidates[b].confidence
             => CatalogPosition(rankedCandidates[a].food.id)
                  < CatalogPosition(rankedCandidates[b].food.id)

\* a ranked list of three that holds a tie and a strict drop, and whose
\* order differs from the catalog's
C1_Witness ==
  /\ pc = "categorize"
  /\ Len(rankedCandidates) = 3
  /\ rankedCandidates[1].confidence = rankedCandidates[2].confidence
  /\ rankedCandidates[2].confidence > rankedCandidates[3].confidence
  /\ CatalogPosition(rankedCandidates[3].food.id) = 1

\* C2: when a catalog entry's normalized name equals the ingredient's
\* non-empty normalized name, the first ranked candidate is that entry,
\* with confidence 100 and an exact-name reason
C2_ExactNameIsFirst ==
  pc # "rank" =>
    \A k \in 1..Len(foodLookup) :
      /\ IngredientKeys[parsedIngredient].name # <<>>
      /\ IndexedFoods[foodLookup[k]].normalizedName
           = IngredientKeys[parsedIngredient].name
      => /\ rankedCandidates # <<>>
         /\ rankedCandidates[1].food.id = foodLookup[k].id
         /\ rankedCandidates[1].confidence = 100
         /\ HasReasonOfType(rankedCandidates[1], "exact-name")

\* C3: a candidate exists for a catalog entry exactly when a signal fired
\* for it, and every ranked candidate has a reason and a confidence in 1..100
C3_CandidateIffSignal ==
  pc # "rank" =>
    /\ \A k \in 1..Len(foodLookup) :
         (SignalsFired[parsedIngredient, foodLookup[k], embeddingGateway] # <<>>)
           <=> (RankedFor(foodLookup[k].id) # {})
    /\ \A r \in 1..Len(rankedCandidates) :
         /\ Len(rankedCandidates[r].reasons) >= 1
         /\ rankedCandidates[r].confidence \in 1..100

\* a catalog of which one entry fired several signals that sum past the cap
\* and another fired none
C3_Witness ==
  /\ pc = "categorize"
  /\ \E r \in 1..Len(rankedCandidates) :
       /\ Len(rankedCandidates[r].reasons) >= 4
       /\ rankedCandidates[r].confidence = 100
  /\ \E k \in 1..Len(foodLookup) : RankedFor(foodLookup[k].id) = {}

\* C4: with the top candidate flagged by the veto check and the second not
\* flagged, the second is the one accepted and categorized, never the top
C4_SecondAccepted ==
  (pc = "done" /\ Len(rankedCandidates) >= 2 /\ Flagged(1) /\ ~Flagged(2)) =>
    /\ categorized.best = Some(rankedCandidates[2])
    /\ categorized.autoMatch \in {Null, Some(rankedCandidates[2])}
    /\ categorized.probableMatch \in {Null, Some(rankedCandidates[2])}

\* "salt" ranked ["Salted Butter", "Table Salt"]: Table Salt is auto-matched
C4_Witness ==
  /\ pc = "done"
  /\ Len(rankedCandidates) >= 2
  /\ Flagged(1)
  /\ ~Flagged(2)
  /\ rankedCandidates[1].food.name = Chars("Salted Butter")
  /\ categorized.autoMatch = Some(rankedCandidates[2])
  /\ rankedCandidates[2].food.name = Chars("Table Salt")

\* C5: with the top candidate flagged and the second flagged or absent,
\* there is no auto-match and no probable match, whatever follows in the
\* list, and the top candidate is carried as best
C5_OnlyOneFallback ==
  (/\ pc = "done"
   /\ Len(rankedCandidates) >= 1
   /\ Flagged(1)
   /\ (Len(rankedCandidates) = 1 \/ Flagged(2))) =>
    /\ categorized.autoMatch = Null
    /\ categorized.probableMatch = Null
    /\ categorized.best = Some(rankedCandidates[1])

\* two flagged candidates ahead of a third that is not flagged
C5_Witness ==
  /\ pc = "done"
  /\ Len(rankedCandidates) >= 3
  /\ Flagged(1)
  /\ Flagged(2)
  /\ ~Flagged(3)
  /\ categorized.autoMatch = Null
  /\ categorized.best = Some(rankedCandidates[1])

\* the candidate that survives the veto check, as a sequence of at most one
PostVetoBest == checkGotchaAndTryNext(rankedCandidates, parsedIngredient)

\* C6: the post-veto best candidate is auto-matched at HARD or above,
\* probable at SOFT or above, pending review with the candidate as best
\* below SOFT; an empty ranked list gives three nulls
C6_ThresholdTiers ==
  pc = "done" =>
    LET hard == HARD_MATCH_THRESHOLD(processEnv)
        soft == SOFT_MATCH_THRESHOLD(processEnv)
        v == PostVetoBest
    IN /\ rankedCandidates = <<>> => categorized = Categorized(Null, Null, Null)
       /\ v # Null =>
            /\ v[1].confidence >= hard =>
                 categorized.autoMatch = v /\ categorized.probableMatch = Null
            /\ (v[1].confidence < hard /\ v[1].confidence >= soft) =>
                 categorized.probableMatch = v /\ categorized.autoMatch = Null
            /\ v[1].confidence < soft =>
                 /\ categorized.autoMatch = Null
                 /\ categorized.probableMatch = Null
                 /\ categorized.best = v

\* a second-ranked candidate that survives the veto check and lands between
\* SOFT and HARD
C6_Witness ==
  /\ pc = "done"
  /\ Len(rankedCandidates) >= 2
  /\ PostVetoBest = Some(rankedCandidates[2])
  /\ rankedCandidates[2].confidence < HARD_MATCH_THRESHOLD(processEnv)
  /\ rankedCandidates[2].confidence >= SOFT_MATCH_THRESHOLD(processEnv)
  /\ categorized.probableMatch = Some(rankedCandidates[2])

Unparseable(v) ==
  v = Undefined \/ \A k \in 1..Len(v[1]) : v[1][k] \notin DigitSet

\* C8: with MATCH_HARD_THRESHOLD / MATCH_SOFT_THRESHOLD missing or not a
\* number, the categorizer works with HARD = 85 and SOFT = 60
C8_DefaultThresholds85And60 ==
  /\ Unparseable(processEnv.MATCH_HARD_THRESHOLD)
       => HARD_MATCH_THRESHOLD(processEnv) = 85
  /\ Unparseable(processEnv.MATCH_SOFT_THRESHOLD)
       => SOFT_MATCH_THRESHOLD(processEnv) = 60

\* the normalized aliases of every catalog entry, computed once
NormalizedAliases ==
  [f \in FoodPool |->
     {normalizeIngredientName(f.aliases[a]).baseName : a \in 1..Len(f.aliases)}]

\* C9: an ingredient whose normalized name is one of the entry's normalized
\* aliases gets a candidate with an alias-exact reason and confidence >= 95
C9_AliasExactAtLeast95 ==
  pc # "rank" =>
    \A k \in 1..Len(foodLookup) :
      /\ IngredientKeys[parsedIngredient].name # <<>>
      /\ IngredientKeys[parsedIngredient].name \in NormalizedAliases[foodLookup[k]]
      => \E r \in RankedFor(foodLookup[k].id) :
           /\ HasReasonOfType(rankedCandidates[r], "alias-exact")
           /\ rankedCandidates[r].confidence >= 95

\* an alias hit on an entry whose own name shares no token with the
\* ingredient
C9_Witness ==
  /\ pc = "categorize"
  /\ \E k \in 1..Len(foodLookup) :
       /\ IngredientKeys[parsedIngredient].name \in NormalizedAliases[foodLookup[k]]
       /\ \E r \in RankedFor(foodLookup[k].id) :
            /\ HasReasonOfType(rankedCandidates[r], "alias-exact")
            /\ ~HasReasonOfType(rankedCandidates[r], "token-overlap")

HasTokenOverlapReason(c, score, perfect) ==
  \E k \in 1..Len(c.reasons) :
    /\ c.reasons[k].type = "token-overlap"
    /\ c.reasons[k].score = score
    /\ c.reasons[k].meta.perfectMatch = perfect

\* C10: equal, non-empty token sets give a candidate of confidence 100 with
\* the ordinary token-overlap reason and a token-overlap reason of score 100
\* flagged perfectMatch
C10_PerfectTokenSymmetry ==
  pc # "rank" =>
    \A k \in 1..Len(foodLookup) :
      /\ IngredientKeys[parsedIngredient].tokens # {}
      /\ IngredientKeys[parsedIngredient].tokens
           = IndexedFoods[foodLookup[k]].tokenSet
      => \E r \in RankedFor(foodLookup[k].id) :
           /\ rankedCandidates[r].confidence = 100
           /\ HasTokenOverlapReason(rankedCandidates[r], TOKEN_SCORE_HIGH, FALSE)
           /\ HasTokenOverlapReason(rankedCandidates[r], EXACT_NAME_SCORE, TRUE)

\* equal token sets under names that differ: no exact-name reason helps
C10_Witness ==
  /\ pc = "categorize"
  /\ \E k \in 1..Len(foodLookup) :
       /\ IngredientKeys[parsedIngredient].tokens # {}
       /\ IngredientKeys[parsedIngredient].tokens
            = IndexedFoods[foodLookup[k]].tokenSet
       /\ \E r \in RankedFor(foodLookup[k].id) :
            /\ ~HasReasonOfType(rankedCandidates[r], "exact-name")
            /\ rankedCandidates[r].confidence = 100

\* C11: ranking against an empty catalog, or ranking an ingredient whose
\* name is empty or only whitespace, gives an empty ranked list, and
\* matchIngredientToFood gives null.
C11_EmptyYieldsEmptyRanking ==
  (/\ pc # "rank"
   /\ \/ foodLookup = <<>>
      \/ trim(parsedIngredient.name) = <<>>)
    => /\ rankedCandidates = <<>>
       /\ matchIngredientToFood(parsedIngredient, foodLookup,
                                embeddingGateway) = Null

C11_Witness ==
  /\ pc # "rank"
  /\ parsedIngredient.name = Chars(" ")
  /\ Len(foodLookup) = MaxCatalog
  /\ embeddingGateway = SaltGateway
  /\ foodLookup[1].id = "f1"
  /\ rankedCandidates = <<>>

\* C17: the candidate categorizeMatch accepts as auto-match or as probable
\* is the first or the second element of the ranked list, never a later one.
C17_AcceptedWithinFirstTwo ==
  pc = "done" =>
    \A m \in {categorized.autoMatch, categorized.probableMatch} :
      m # Null =>
        \E k \in 1..Min(2, Len(rankedCandidates)) : rankedCandidates[k] = m[1]

C17_Witness ==
  /\ pc = "done"
  /\ Len(rankedCandidates) >= 3
  /\ categorized.autoMatch # Null
  /\ categorized.autoMatch[1] = rankedCandidates[2]
  /\ ~checkProblematicMatch(parsedIngredient, rankedCandidates[3]).isProblematic

\* C14: normalization is idempotent: normalizing the base name of a
\* normalized phrase gives the same base name and the same tokens.
C14_NormalizationIdempotent ==
  Len(normalized) = 2 =>
    /\ normalized[2].baseName = normalized[1].baseName
    /\ normalized[2].tokens = normalized[1].tokens

\* the ingredient name and the candidate name as the veto check compares
\* them: lower-cased, without surrounding whitespace
CheckedIngredientName == trim(toLowerCase(parsedIngredient.name))

CheckedCandidateName == trim(toLowerCase(rankedCandidates[1].food.name))

\* rule (a): the ingredient name is one word of the single-word table and
\* the candidate name contains one of its excluded substrings
SingleWordRuleFires ==
  /\ CheckedIngredientName # <<>>
  /\ " " \notin Range(CheckedIngredientName)
  /\ \E k \in 1..Len(PROBLEMATIC_SINGLE_WORD_PATTERNS) :
       /\ PROBLEMATIC_SINGLE_WORD_PATTERNS[k].ingredient = CheckedIngredientName
       /\ \E e \in Range(PROBLEMATIC_SINGLE_WORD_PATTERNS[k].excludes) :
            includes(CheckedCandidateName, e)

\* rule (b): every required word of an entry of the semantic-mismatch table
\* is in the ingredient name and one of its excluded substrings is in the
\* candidate name
SemanticRuleFires ==
  \E k \in 1..Len(SEMANTIC_MISMATCHES) :
    /\ \A w \in Range(SEMANTIC_MISMATCHES[k].ingredient) :
         includes(CheckedIngredientName, w)
    /\ \E e \in Range(SEMANTIC_MISMATCHES[k].excludes) :
         includes(CheckedCandidateName, e)

\* C19: checkProblematicMatch flags a pair exactly when rule (a) or rule (b)
\* fires, and when rule (a) fires the pattern tag is
\* "<word> -> <lower-cased candidate name>".
C19_GotchaRules ==
  gotchaCheck # Null =>
    /\ gotchaCheck[1].isProblematic = (SingleWordRuleFires \/ SemanticRuleFires)
    /\ SingleWordRuleFires =>
         gotchaCheck[1].pattern =
           CheckedIngredientName \o Chars(" -> ") \o CheckedCandidateName

C19_Witness ==
  /\ gotchaCheck # Null
  /\ parsedIngredient.name = Chars("Salt ")
  /\ gotchaCheck[1].isProblematic
  /\ gotchaCheck[1].pattern = Chars("salt -> salted butter")

\* the number of calls the gateway got for a key
CallsFor(key) ==
  Cardinality({ n \in DOMAIN gatewayCalls : gatewayCalls[n] = key })

\* C20: the cache is single-flight: the gateway is called at most once for
\* a key, also when lookups of that key overlap.
C20_SingleFlight ==
  \A n \in DOMAIN lookups : CallsFor(lookups[n].key) <= 1

\* the lookups of a key that have returned
ReturnedFor(key) ==
  { n \in DOMAIN lookups :
      lookups[n].key = key /\ lookups[n].status = "returned" }

\* C12: in a request whose lookups are awaited one after the other, the
\* gateway is called at most once for each food key and each ingredient key,
\* and every lookup of a key returns what the first lookup of it returned.
C12_OneGatewayCallPerKey ==
  pc = "ranking" =>
    \A n \in DOMAIN lookups :
      /\ CallsFor(lookups[n].key) <= 1
      /\ \A m \in ReturnedFor(lookups[n].key) :
           lookups[n].status = "returned" => lookups[m].value = lookups[n].value

\* two ingredients of one key and two foods were ranked: six lookups, three
\* of them answered from the cache with a vector
C12_Witness ==
  /\ pc = "ranking"
  /\ Len(parsedIngredients) = 2
  /\ Len(rankings) = 2
  /\ parsedIngredients[1].name # parsedIngredients[2].name
  /\ Len(foodLookup) = 2
  /\ Len(gatewayCalls) = 3
  /\ \A n \in DOMAIN lookups :
       lookups[n].status = "returned" /\ lookups[n].value # Null

\* the candidates a ranking holds for a food
candidatesOf(ranking, food) ==
  { ranking[n] : n \in { m \in DOMAIN ranking : ranking[m].food.id = food.id } }

\* the candidates a sequence holds
candidatesIn(scored) == { scored[n] : n \in DOMAIN scored }

hasEmbeddingReason(candidate) ==
  \E n \in DOMAIN candidate.reasons :
    candidate.reasons[n].type = "embedding-similarity"

\* the k-th ranking holds for the j-th food what scoreCandidate gives with
\* the vectors the lookups returned; without one of the two vectors that is
\* the candidate scored with no vectors, which has no embedding reason
PairingRanked(k, j) ==
  LET ingredientEmbedding == lookups[firstLookupOf(k)].value
      candidateEmbedding == lookups[firstLookupOf(k) + j].value
      ranked == candidatesOf(rankings[k], foodLookup[j])
  IN /\ ranked = candidatesIn(ScoredWithEmbeddings[parsedIngredients[k],
                    foodLookup[j], ingredientEmbedding, candidateEmbedding])
     /\ (ingredientEmbedding = Null \/ candidateEmbedding = Null) =>
          /\ ranked = candidatesIn(ScoredWithEmbeddings[parsedIngredients[k],
                         foodLookup[j], Null, Null])
          /\ \A c \in ranked : ~hasEmbeddingReason(c)

\* C13: a failure of the embedding provider is not propagated and counts as
\* no vector: no lookup rejects, the lookup of an ingredient whose provider
\* call threw returns no vector, the request stops only when every
\* ingredient is ranked, and a pairing without a vector is scored as without
\* embeddings while the other pairings keep theirs.
C13_ProviderFailureIsNoVector ==
  pc = "ranking" =>
    /\ ~requestRejected
    /\ \A n \in DOMAIN lookups :
         /\ lookups[n].status # "rejected"
         /\ ( /\ lookups[n].cache = "ingredient"
              /\ lookups[n].status = "returned"
              /\ lookups[n].key \in providerErrors ) => lookups[n].value = Null
    /\ (~ENABLED NextRanking) => Len(rankings) = Len(parsedIngredients)
    /\ \A k \in DOMAIN rankings : \A j \in DOMAIN foodLookup : PairingRanked(k, j)

\* the provider threw for the first ingredient and for the first food, both
\* ingredients were ranked, and the second ingredient's pairing with the
\* second food kept its embedding reason
C13_Witness ==
  /\ pc = "ranking"
  /\ ~requestRejected
  /\ Len(parsedIngredients) = 2
  /\ Len(rankings) = 2
  /\ Len(foodLookup) = 2
  /\ lookups[1].key \in providerErrors
  /\ lookups[1].value = Null
  /\ lookups[2].key \in providerErrors
  /\ lookups[2].value = Null
  /\ rankings[1] # <<>>
  /\ \E c \in candidatesOf(rankings[2], foodLookup[2]) : hasEmbeddingReason(c)

\* the writes of a method made to Notion, in order
RECURSIVE writesOf(_, _)
writesOf(writes, method) ==
  IF writes = <<>> THEN <<>>
  ELSE IF Head(writes).method = method
    THEN <<Head(writes)>> \o writesOf(Tail(writes), method)
    ELSE writesOf(Tail(writes), method)

\* C15: createIngredientEntries is given only ingredients with a foodId,
\* which are the auto-matched ones; when the request persists to Notion it
\* is called once if there are such ingredients, and it is never called if
\* there are none; and without persistToNotion nothing is written to Notion.
C15_OnlyMatchedPersisted ==
  intakeOptions # Null =>
    /\ \A n \in DOMAIN notionWrites :
         notionWrites[n].method = "createIngredientEntries" =>
           /\ notionWrites[n].argument # <<>>
           /\ notionWrites[n].argument = matches
           /\ \A k \in DOMAIN notionWrites[n].argument :
                notionWrites[n].argument[k].foodId # Null
    /\ matches = <<>> =>
         writesOf(notionWrites, "createIngredientEntries") = <<>>
    /\ ( /\ pc \in {"persistUnmatched", "respond"}
         /\ intakeOptions.persistToNotion /\ intakeOptions.notionClient
         /\ matches # <<>> ) =>
         Len(writesOf(notionWrites, "createIngredientEntries")) = 1
    /\ ~intakeOptions.persistToNotion => notionWrites = <<>>

\* of two ingredients one was auto-matched; createIngredientEntries got that
\* one alone and the request was answered
C15_Witness ==
  /\ pc = "done"
  /\ intakeResponse # Null
  /\ ~intakeResponse.rejected
  /\ Len(matchedIngredients) = 2
  /\ Len(unmatched) = 1
  /\ \E n \in DOMAIN notionWrites :
       /\ notionWrites[n].method = "createIngredientEntries"
       /\ Len(notionWrites[n].argument) = 1

\* the unmatched ingredients that processUnmatchedIngredient does not skip
RECURSIVE namedIngredients(_)
namedIngredients(ingredients) ==
  IF ingredients = <<>> THEN <<>>
  ELSE IF trim(Head(ingredients).name) = <<>>
    THEN namedIngredients(Tail(ingredients))
    ELSE <<Head(ingredients)>> \o namedIngredients(Tail(ingredients))

\* the ingredients createFoodEntry was called for, in order
foodEntryIngredients ==
  [n \in DOMAIN writesOf(notionWrites, "createFoodEntry") |->
     writesOf(notionWrites, "createFoodEntry")[n].argument.ingredient]

foodEntryThrew ==
  \E n \in DOMAIN notionWrites :
    /\ notionWrites[n].method = "createFoodEntry"
    /\ notionWrites[n].outcome = "throws"

\* C16: a createFoodEntry that throws does not end the run: the request is
\* never rejected with its error, and when the request is done after such a
\* failure createFoodEntry has been called for every unmatched ingredient
\* with a name and the response is the normal one.
C16_FoodEntryFailureContained ==
  intakeOptions # Null =>
    /\ (intakeResponse # Null /\ intakeResponse.rejected) =>
         intakeResponse.value # "createFoodEntry"
    /\ (pc = "done" /\ foodEntryThrew) =>
         /\ intakeResponse =
              Resolved([ingredients |-> matchedIngredients,
                        unmatched |-> unmatched, matches |-> matches,
                        probables |-> probables,
                        pendingReview |-> pendingReview])
         /\ cursor = Len(unmatched)
         /\ foodEntryIngredients = namedIngredients(unmatched)

\* createFoodEntry threw for the first of two unmatched ingredients, was
\* called for the second, and the request was answered
C16_Witness ==
  /\ pc = "done"
  /\ intakeResponse # Null
  /\ ~intakeResponse.rejected
  /\ Len(unmatched) = 2
  /\ Len(writesOf(notionWrites, "createFoodEntry")) = 2
  /\ writesOf(notionWrites, "createFoodEntry")[1].outcome = "throws"
  /\ writesOf(notionWrites, "createFoodEntry")[2].outcome = "ok"

\* the tiers of the response an ingredient is reported in
tiersOf(ingredient, value) ==
  { tier \in {"matches", "probables", "pendingReview"} :
      \E n \in DOMAIN value[tier] : value[tier][n].ingredient = ingredient }

\* C18: in the response every ingredient is in exactly one of matches,
\* probables and pendingReview.
C18_ExactlyOneTier ==
  (pc = "done" /\ intakeResponse # Null /\ ~intakeResponse.rejected) =>
    \A k \in DOMAIN parsedIngredients :
      Cardinality(tiersOf(parsedIngredients[k], intakeResponse.value)) = 1

\* C21: several weaker signals never outrank one stronger signal: when every
\* reason score of B is below the highest reason score of A, the combined
\* confidence of B is not above that of A.
C21_WeakNeverOutrankStrong ==
  ( /\ combined # Null
    /\ reasonsA # <<>>
    /\ \A k \in DOMAIN reasonsB : reasonsB[k].score < maxScore(reasonsA) ) =>
    combined[1].b.confidence <= combined[1].a.confidence

\* Math.round(fifths / 5) for fifths >= 0: the integer within a half of it,
\* the upper one at a tie
RoundedFifths(fifths) ==
  CHOOSE k \in 0..(fifths + 1) :
    10 * k <= 2 * fifths + 5 /\ 2 * fifths + 5 < 10 * k + 10

\* the largest score of a non-empty list, and the sum of the others
TopOf(reasons) ==
  CHOOSE k \in DOMAIN reasons :
    \A j \in DOMAIN reasons : reasons[j].score <= reasons[k].score

RestOf(reasons) ==
  sumScores([j \in 1..(Len(reasons) - 1) |->
    reasons[IF j < TopOf(reasons) THEN j ELSE j + 1]])

\* the combined score is min(100, round(top + 0.2 * rest)) and lies in 0..100;
\* for no reasons it is 0 and there is no candidate
CombinedAsSpecified(reasons, result) ==
  IF reasons = <<>>
    THEN result.confidence = 0 /\ result.scored = Null
    ELSE /\ result.confidence =
              Min(100, RoundedFifths(5 * reasons[TopOf(reasons)].score
                                     + RestOf(reasons)))
         /\ result.confidence \in 0..100

\* C22: combineScores gives min(100, round(top + 0.2 * sum of the others))
\* for a non-empty list, an integer in 0..100, and 0 for an empty list, for
\* which scoreCandidate gives no candidate.
C22_CombineScoresFormula ==
  combined # Null =>
    /\ CombinedAsSpecified(reasonsA, combined[1].a)
    /\ CombinedAsSpecified(reasonsB, combined[1].b)

\* three reasons 47, 80, 72 combine to 80 + round(23.8) = 104, capped at 100,
\* and an empty list gives no candidate
C22_Witness ==
  /\ combined # Null
  /\ Len(reasonsA) = 3
  /\ reasonsA[1].score = 47 /\ reasonsA[2].score = 80 /\ reasonsA[3].score = 72
  /\ combined[1].a.confidence = 100
  /\ reasonsB = <<>>
  /\ combined[1].b.scored = Null

\* the candidate scoreCandidate returned has a reason of the type
ScoredWithReason(type) ==
  /\ scoreOutput # Null
  /\ scoreOutput[1].candidate # Null
  /\ \E k \in DOMAIN scoreOutput[1].candidate[1].reasons :
       scoreOutput[1].candidate[1].reasons[k].type = type

\* the candidate has a token-overlap reason with coverage of at least 0.6
ScoredWithGoodOverlap ==
  \E k \in DOMAIN scoreOutput[1].candidate[1].reasons :
    /\ scoreOutput[1].candidate[1].reasons[k].type = "token-overlap"
    /\ scoreOutput[1].candidate[1].reasons[k].meta.coverage # <<>>
    /\ 10 * scoreOutput[1].candidate[1].reasons[k].meta.coverage[1]
         >= 6 * scoreOutput[1].candidate[1].reasons[k].meta.coverage[2]

\* one of the two normalized names is a string prefix of the other
ScoredNamesArePrefixes ==
  \/ startsWith(scoreOutput[1].indexed.normalizedName,
                normalizeForComparison(scoreInput[1].ingredient.name))
  \/ startsWith(normalizeForComparison(scoreInput[1].ingredient.name),
                scoreOutput[1].indexed.normalizedName)

\* C23: a candidate with a prefix-match reason also has a token-overlap
\* reason with coverage of at least 0.6, so a name that is a string prefix of
\* the other name without such an overlap gets no prefix-match reason.
C23_PrefixNeedsTokenOverlap ==
  ScoredWithReason("prefix-match") =>
    ScoredWithGoodOverlap /\ ScoredNamesArePrefixes

\* "chicken breast" against "Chicken Breast Fillet": a prefix with both
\* tokens matched
C23_Witness ==
  /\ ScoredWithReason("prefix-match")
  /\ scoreInput[1].ingredient.name = Chars("chicken breast")
  /\ scoreInput[1].food.id = "s2"

\* the name of the scored catalog entry is empty or normalizes to nothing
ScoredFoodIsNameless ==
  normalizeIngredientName(scoreInput[1].food.name).baseName = <<>>

\* C25: a catalog entry whose name is empty or normalizes to nothing gives no
\* candidate, with or without embedding vectors.
C25_NamelessEntrySkipped ==
  (scoreOutput # Null /\ ScoredFoodIsNameless) =>
    scoreOutput[1].candidate = Null

\* the candidate has the reason of a perfect token match
ScoredWithPerfectTokenMatch ==
  /\ scoreOutput # Null
  /\ scoreOutput[1].candidate # Null
  /\ hasPerfectTokenMatch(scoreOutput[1].candidate[1])

\* texts MATCH_HARD_THRESHOLD can hold
HardThresholdTexts ==
  {Undefined, Some(Chars("150")), Some(Chars("100")), Some(Chars("99.5")),
   Some(Chars("86")), Some(Chars("abc"))}

\* categorizeMatch on the scored candidate alone auto-matches it under the
\* HARD threshold a text gives
ScoredAutoMatchedUnder(text) ==
  categorizeMatch(scoreOutput[1].candidate, scoreInput[1].ingredient,
    parseThreshold(text, DEFAULT_HARD_MATCH_THRESHOLD),
    DEFAULT_SOFT_MATCH_THRESHOLD).autoMatch # Null

\* C28: a candidate from scoreCandidate with a perfect-token-match reason has
\* confidence exactly 100, so whenever categorizeMatch auto-matches it the
\* HARD threshold alone would: the override changes no tier.
C28_PerfectTokenMatchIs100 ==
  ScoredWithPerfectTokenMatch =>
    /\ scoreOutput[1].candidate[1].confidence = 100
    /\ \A text \in HardThresholdTexts :
         ScoredAutoMatchedUnder(text) =>
           scoreOutput[1].candidate[1].confidence
             >= parseThreshold(text, DEFAULT_HARD_MATCH_THRESHOLD)

\* "breast chicken" against "Chicken Breast": no exact name, all tokens
\* matched both ways, auto-matched under the highest threshold
C28_Witness ==
  /\ ScoredWithPerfectTokenMatch
  /\ ~ScoredWithReason("exact-name")
  /\ scoreInput[1].ingredient.name = Chars("breast chicken")
  /\ scoreInput[1].food.id = "f7"
  /\ ScoredAutoMatchedUnder(Some(Chars("150")))

\* confidences on both sides of the 85 and 90 limits of isValidMatch
VetoConfidences == {0, 60, 84, 85, 89, 90, 100}

\* the candidate of the veto check with another confidence
CheckedAt(confidence) == [rankedCandidates[1] EXCEPT !.confidence = confidence]

\* isValidMatch rejects the checked pairing at some confidence
RejectedBySecondCheck ==
  \E c \in VetoConfidences : ~isValidMatch(parsedIngredient, CheckedAt(c))

\* C26: whenever isValidMatch rejects a pairing, at any confidence,
\* checkProblematicMatch flags the same pairing; so the candidate that passed
\* the veto check is valid for isValidMatch and categorizeMatch gives what it
\* gives without its retry branch.
C26_SecondCheckSubsumed ==
  (pc = "done" /\ gotchaCheck # Null) =>
    /\ RejectedBySecondCheck => gotchaCheck[1].isProblematic
    /\ \A c \in VetoConfidences :
         LET ranked == <<CheckedAt(c)>>
             valid == checkGotchaAndTryNext(ranked, parsedIngredient)
         IN valid # Null => isValidMatch(parsedIngredient, valid[1])

\* "beef stock" against "Ground Beef Stock": rejected by the semantic table
\* of isValidMatch and flagged by the veto check
C26_Witness ==
  /\ pc = "done"
  /\ gotchaCheck # Null
  /\ parsedIngredient.name = Chars("beef stock")
  /\ rankedCandidates[1].food.id = "g11"
  /\ ~isValidMatch(parsedIngredient, CheckedAt(84))
  /\ isValidMatch(parsedIngredient, CheckedAt(85))
  /\ gotchaCheck[1].isProblematic

\* the candidates categorizeMatch returned as autoMatch or probableMatch
AcceptedCandidates ==
  { c \in {categorized.autoMatch, categorized.probableMatch} : c # Null }

\* C27: a candidate that checkProblematicMatch flags is never returned as
\* autoMatch or probableMatch, whatever its confidence, 100 included.
C27_FlaggedNeverAccepted ==
  pc = "done" =>
    \A c \in AcceptedCandidates :
      ~checkProblematicMatch(parsedIngredient, c[1]).isProblematic

\* "salt" with "Salted Butter" ranked first at confidence 100: flagged, and
\* the second candidate is accepted in its place
C27_Witness ==
  /\ pc = "done"
  /\ Len(rankedCandidates) = 2
  /\ rankedCandidates[1].confidence = 100
  /\ Flagged(1)
  /\ categorized.autoMatch = Some(rankedCandidates[2])

\* the ranked list mapParsedToMatched computed for the k-th parsed ingredient
RankedForParsed(k) ==
  topCandidates(rankFoodCandidates(parsedIngredients[k], foodLookup,
    embeddingGateway))

\* the candidates of a matched ingredient that the veto check flags
VetoedIn(m) ==
  { k \in 1..Len(m.candidates) :
      checkProblematicMatch(m.ingredient, m.candidates[k]).isProblematic }

AutoMatched(k) ==
  categorizeMatch(RankedForParsed(k), parsedIngredients[k],
    HARD_MATCH_THRESHOLD(processEnv),
    SOFT_MATCH_THRESHOLD(processEnv)).autoMatch # Null

\* the elements of a list of matched ingredients with, or without, a foodId
RECURSIVE havingFoodId(_, _)
havingFoodId(ingredients, present) ==
  IF ingredients = <<>> THEN <<>>
  ELSE IF (Head(ingredients).foodId # Null) = present
    THEN <<Head(ingredients)>> \o havingFoodId(Tail(ingredients), present)
    ELSE havingFoodId(Tail(ingredients), present)

\* the parsed ingredients behind a list of matched ingredients
RECURSIVE parsedOf(_)
parsedOf(ingredients) ==
  IF ingredients = <<>> THEN <<>>
  ELSE <<Head(ingredients).ingredient>> \o parsedOf(Tail(ingredients))

\* C29: in the response, ingredients has one element per parsed ingredient
\* in input order; foodId is non-null exactly for the auto-matched ones;
\* matches holds the elements with a foodId and unmatched the ingredients
\* of the others, each once and in order; every probable has foodId null
\* and its ingredient in unmatched.
C29_ResponseStructure ==
  (intakeResponse # Null /\ ~intakeResponse.rejected) =>
    LET r == intakeResponse.value
    IN /\ parsedOf(r.ingredients) = parsedIngredients
       /\ \A k \in 1..Len(r.ingredients) :
            (r.ingredients[k].foodId # Null) <=> AutoMatched(k)
       /\ r.matches = havingFoodId(r.ingredients, TRUE)
       /\ r.unmatched = parsedOf(havingFoodId(r.ingredients, FALSE))
       /\ Len(r.matches) + Len(r.unmatched) = Len(r.ingredients)
       /\ \A k \in 1..Len(r.probables) :
            /\ r.probables[k].foodId = Null
            /\ \E u \in 1..Len(r.unmatched) :
                 r.unmatched[u] = r.probables[k].ingredient

\* a response with an auto-matched ingredient followed by a probable one
C29_Witness ==
  /\ intakeResponse # Null
  /\ ~intakeResponse.rejected
  /\ Len(intakeResponse.value.ingredients) = 2
  /\ Len(intakeResponse.value.matches) = 1
  /\ Len(intakeResponse.value.probables) = 1
  /\ intakeResponse.value.ingredients[1].foodId # Null
  /\ intakeResponse.value.probables[1] = intakeResponse.value.ingredients[2]

\* what a flush call returns, or will return: nothing when it was rejected
returnedBy(call) ==
  IF call.settled # Null /\ call.settled[1].rejected THEN <<>>
  ELSE call.snapshot

\* the items the flush calls return, in the order of the calls
RECURSIVE allReturned(_)
allReturned(calls) ==
  IF calls = <<>> THEN <<>>
  ELSE returnedBy(Head(calls)) \o allReturned(Tail(calls))

\* the snapshots the flush calls took, in the order of the calls
RECURSIVE allSnapshots(_)
allSnapshots(calls) ==
  IF calls = <<>> THEN <<>>
  ELSE Head(calls).snapshot \o allSnapshots(Tail(calls))

\* the items gateway.persist was given, in the order of its calls
RECURSIVE allPersisted(_)
allPersisted(calls) ==
  IF calls = <<>> THEN <<>> ELSE Head(calls) \o allPersisted(Tail(calls))

\* nothing is duplicated or reordered: the snapshots of the flush calls,
\* followed by the items still queued, are the enqueued items in their order
QueueKeepsOrder == allSnapshots(flushCalls) \o items = enqueuedItems

\* with a gateway, persist gets the non-empty snapshots in the same order
\* and is never called with an empty list; without one it is never called
QueuePersistsInOrder ==
  /\ \A n \in 1..Len(persistCalls) : persistCalls[n] # <<>>
  /\ allPersisted(persistCalls) =
       IF queueGateway THEN allSnapshots(flushCalls) ELSE <<>>

\* a flush of an empty queue has returned the empty list
EmptyFlushReturnsEmpty ==
  \A n \in 1..Len(flushCalls) :
    flushCalls[n].snapshot = <<>> =>
      flushCalls[n].settled = Some(Resolved(<<>>))

\* C30: the queue loses and duplicates nothing under any interleaving of
\* enqueue and flush: the items the flush calls return, followed by the items
\* still queued, are the enqueued items, each once and in enqueue order;
\* persist gets them in that order; a flush of an empty queue returns the
\* empty list without calling persist.
C30_QueueLosesNothing ==
  /\ allReturned(flushCalls) \o items = enqueuedItems
  /\ QueuePersistsInOrder
  /\ EmptyFlushReturnsEmpty

\* what holds of the queue whether persist resolves or rejects
QueueNeverDuplicates ==
  /\ QueueKeepsOrder
  /\ QueuePersistsInOrder
  /\ EmptyFlushReturnsEmpty

\* an item enqueued while an earlier flush still awaits gateway.persist, and
\* returned by a later flush
EnqueuedDuringFlush ==
  /\ Len(flushCalls) = 2
  /\ flushCalls[1].settled = Null
  /\ flushCalls[2].settled = Null
  /\ Len(flushCalls[1].snapshot) = 2
  /\ Len(flushCalls[2].snapshot) = 1
  /\ items = <<>>
====
